---- MODULE Spec2Model ----
(***************************************************************************)
(* Model of the @qwickapps/logging Logger, its emission pipeline and the   *)
(* hierarchical logger registry.                                           *)
(*                                                                         *)
(* Strings that the program takes apart or puts together (namespaces,      *)
(* paths, messages, console lines) are sequences of one-character strings, *)
(* so that split('.') and template concatenation are computed.  JavaScript *)
(* objects are functions from their own keys to values; an absent option   *)
(* is a key that is not in the DOMAIN.  A Logger instance is an index into  *)
(* the sequence loggers, so that instance identity is index equality.      *)
(*                                                                         *)
(* The StartupLogger of startup.ts is modelled with the part of the file   *)
(* system it touches: the log directory, the active log file and its       *)
(* numbered backups.  A file is the sequence of the chunks appended to it.  *)
(***************************************************************************)
EXTENDS Integers, Sequences, FiniteSets, TLC

VARIABLES
    isProd,          \* process.env.NODE_ENV === 'production', read once at load
    stripLogs,       \* process.env.STRIP_LOGS === 'true', read once at load
    pinoAvailable,   \* whether require('pino') succeeded at load
    loggers,         \* the heap of Logger instances, instance id = index
    loggerRegistry,  \* Map<string, Logger>: path -> instance id
    nSetConfig,      \* number of top-level setConfig calls made (bounded)
    call,            \* the operation performed last and its arguments
    ret,             \* the instance it returned (0: returns nothing)
    out,             \* the calls the last emission made on backend, transports, console
    threw,           \* whether the last operation ended by throwing to its caller
    dirExists,       \* whether the directory of the startup log exists
    files,           \* the startup log files: 0 is logPath, i is logPath.i
    startupLoggers,  \* the heap of StartupLogger instances, instance id = index
    globalStartupLogger,  \* the module's global instance (0: null)
    nConstructed     \* number of StartupLogger constructor calls made (bounded)

vars == <<isProd, stripLogs, pinoAvailable, loggers, loggerRegistry,
          nSetConfig, call, ret, out, threw,
          dirExists, files, startupLoggers, globalStartupLogger, nConstructed>>

env == <<isProd, stripLogs, pinoAvailable>>

\* what startup.ts works on
startup == <<dirExists, files, startupLoggers, globalStartupLogger, nConstructed>>

\* ----- bounds of the model -----
\* the whole system (Spec): instances on the heap, top-level setConfig calls
MaxLoggers == 2
MaxSetConfig == 1
\* construction and configuration alone (SpecTree)
TreeLoggers == 3
TreeSetConfig == 1

\* ----- strings -----
Dot == "."
Anonymous == <<"A", "n", "o", "n", "y", "m", "o", "u", "s">>
emptyString == <<>>

\* ----- JavaScript values that travel in bindings, context objects and args -----
Str(s) == [tag |-> "string", s |-> s]
ErrorValue(n, m, st) == [tag |-> "Error", name |-> n, message |-> m, stack |-> st]
PlainObject(f) == [tag |-> "object", fields |-> f]

noKeys == <<>>

Has(o, k) == k \in DOMAIN o

\* Object.assign(a, b) / { ...a, ...b }: the keys of b win
Assign(a, b) ==
    [k \in (DOMAIN a) \cup (DOMAIN b) |-> IF k \in DOMAIN b THEN b[k] ELSE a[k]]

Without(o, key) == [k \in (DOMAIN o) \ {key} |-> o[k]]

isError(v) == v.tag = "Error"

isPlainObject(v) == v.tag = "object"

\* ----- levels -----
LogLevel == {"debug", "info", "warn", "error"}

levelOrder == [debug |-> 10, info |-> 20, warn |-> 30, error |-> 40]

\* faulty variant of levelEnabled: the minimum level itself is dropped too
levelEnabledAbove(target, current) == levelOrder[target] > levelOrder[current]

levelEnabled(target, current) == levelOrder[target] >= levelOrder[current]

\* ----- transports -----
\* A LogTransport is known to the Logger only through handle(); what matters
\* here is its identity and whether handle() throws.
Transport(n, t) == [name |-> n, throws |-> t]
tOk1 == Transport("ok1", FALSE)
tBad == Transport("bad", TRUE)
tOk2 == Transport("ok2", FALSE)

\* A transport array is an object: ref is its identity, ts its elements.
\* Arrays the application passes in have refs 1, 2, ...; the array that the
\* constructor of instance n makes itself ("|| []") has ref -n.
TransportList(r, s) == [ref |-> r, ts |-> s]
listEmpty == TransportList(1, <<>>)
listOk == TransportList(2, <<tOk1, tOk2>>)
listBad == TransportList(3, <<tOk1, tBad, tOk2>>)

\* ----- backends -----
\* basePino.child(b) is a pino logger carrying the bindings b.
PinoChild(b) == [kind |-> "pino", bindings |-> b]

consoleBackendFactory(ns) == [kind |-> "console", ns |-> ns]

noopBackend == [kind |-> "noop"]

\* What backend[level](entry, ...args) does that can be seen from outside: a
\* pino logger writes one record; the bodies of the two fallbacks are empty.
backendMethod(backend, level, entry, args) ==
    IF backend.kind = "pino"
    THEN <<[level |-> level, bindings |-> backend.bindings, entry |-> entry,
            args |-> args]>>
    ELSE <<>>

\* backend.child(bindings)
backendChild(backend, bindings) ==
    IF backend.kind = "pino" THEN PinoChild(Assign(backend.bindings, bindings))
    ELSE IF backend.kind = "console"
    THEN consoleBackendFactory(IF Has(bindings, "ns") /\ bindings.ns.s # <<>>
                               THEN backend.ns \o <<".">> \o bindings.ns.s
                               ELSE backend.ns)
    ELSE noopBackend

\* faulty variant of buildBackend: the console stub in production too
buildBackendNoNoop(namespace, extraBindings) ==
    IF pinoAvailable
    THEN PinoChild(Assign([ns |-> Str(namespace)], extraBindings))
    ELSE consoleBackendFactory(namespace)

buildBackend(namespace, extraBindings) ==
    IF pinoAvailable
    THEN PinoChild(Assign([ns |-> Str(namespace)], extraBindings))
    ELSE IF ~isProd THEN consoleBackendFactory(namespace)
         ELSE noopBackend

\* ----- Logger constructor -----
Undefined == "undefined"

OptOr(options, key, default) ==
    IF Has(options, key) THEN options[key] ELSE default

\* faulty variant of enabledRule: transports do not count in production
enabledRuleNoTransports(options, hasTransports) ==
    /\ ~stripLogs
    /\ OptOr(options, "enabled", TRUE) # FALSE
    /\ (~isProd \/ pinoAvailable)

\* faulty variant of enabledRule: the strip flag is not looked at
enabledRuleNoStrip(options, hasTransports) ==
    /\ OptOr(options, "enabled", TRUE) # FALSE
    /\ (~isProd \/ pinoAvailable \/ hasTransports)

\* this.enabled = !stripLogs && (options.enabled !== false) &&
\*                (!isProd || pinoAvailable || hasTransports)
enabledRule(options, hasTransports) ==
    /\ ~stripLogs
    /\ OptOr(options, "enabled", TRUE) # FALSE
    /\ (~isProd \/ pinoAvailable \/ hasTransports)

\* new Logger(options), for the instance that gets id self
Logger(options, self) ==
    LET namespace == IF Has(options, "namespace") /\ options.namespace # emptyString
                     THEN options.namespace ELSE Anonymous
        transports == IF Has(options, "transports") THEN options.transports
                      ELSE TransportList(0 - self, <<>>)
        hasTransports == Len(transports.ts) > 0
    IN  [ namespace      |-> namespace,
          minLevel       |-> OptOr(options, "level", IF isProd THEN "info" ELSE "debug"),
          logDir         |-> OptOr(options, "logDir", "./logs"),
          logFileName    |-> OptOr(options, "logFileName", "app.log"),
          disableConsole |-> OptOr(options, "disableConsole", FALSE),
          maxSize        |-> OptOr(options, "maxSize", Undefined),
          maxFiles       |-> OptOr(options, "maxFiles", Undefined),
          frequency      |-> OptOr(options, "frequency", Undefined),
          transports     |-> transports,
          backend        |-> buildBackend(namespace, OptOr(options, "bindings", noKeys)),
          children       |-> noKeys,
          enabled        |-> enabledRule(options, hasTransports) ]

\* ----- Logger.child -----
\* P.child(subNamespace, bindings) on the heap ls: the heap afterwards and
\* the instance returned
\* faulty variant of hasChild: the cache is never consulted
neverCached(this, childKey) == FALSE

\* this.children.has(childKey)
hasChild(this, childKey) == Has(this.children, childKey)

\* faulty variant of childNamespace: the separator is left out
namespaceUndotted(this, subNamespace) == this.namespace \o subNamespace

\* `${this.namespace}.${subNamespace}`
childNamespace(this, subNamespace) == this.namespace \o <<Dot>> \o subNamespace

child(ls, self, subNamespace, bindings) ==
    LET this == ls[self] IN
    IF hasChild(this, subNamespace)
    THEN [ls |-> ls, ret |-> this.children[subNamespace]]
    ELSE LET id == Len(ls) + 1
             childLogger ==
                 Logger([ namespace      |-> childNamespace(this, subNamespace),
                          enabled        |-> this.enabled,
                          level          |-> this.minLevel,
                          logDir         |-> this.logDir,
                          logFileName    |-> this.logFileName,
                          disableConsole |-> this.disableConsole,
                          maxSize        |-> this.maxSize,
                          maxFiles       |-> this.maxFiles,
                          frequency      |-> this.frequency,
                          transports     |-> this.transports,
                          bindings       |-> bindings ], id)
         IN  [ls  |-> Append([ls EXCEPT ![self].children = Assign(@, subNamespace :> id)],
                             childLogger),
              ret |-> id]

\* ----- Logger.with -----
withLogger(this, bindings, id) ==
    Logger([ namespace      |-> this.namespace,
             enabled        |-> this.enabled,
             level          |-> this.minLevel,
             logDir         |-> this.logDir,
             logFileName    |-> this.logFileName,
             disableConsole |-> this.disableConsole,
             maxSize        |-> this.maxSize,
             maxFiles       |-> this.maxFiles,
             frequency      |-> this.frequency,
             bindings       |-> bindings ], id)

\* ----- Logger.setConfig -----
\* the assignments setConfig makes on one instance
applyConfig(this, config) ==
    LET l1 == [this EXCEPT
                 !.logDir         = OptOr(config, "logDir", @),
                 !.logFileName    = OptOr(config, "logFileName", @),
                 !.disableConsole = OptOr(config, "disableConsole", @),
                 !.maxSize        = OptOr(config, "maxSize", @),
                 !.maxFiles       = OptOr(config, "maxFiles", @),
                 !.frequency      = OptOr(config, "frequency", @),
                 !.minLevel       = OptOr(config, "level", @)]
        hasTransports ==
            \/ Has(config, "transports") /\ Len(config.transports.ts) > 0
            \/ Len(this.transports.ts) > 0
        l2 == IF Has(config, "enabled")
              THEN [l1 EXCEPT !.enabled = /\ ~stripLogs
                                          /\ config.enabled
                                          /\ (~isProd \/ pinoAvailable \/ hasTransports)]
              ELSE l1
    IN  IF Has(config, "transports")
        THEN [l2 EXCEPT !.transports = config.transports,
                        !.enabled = IF Len(config.transports.ts) > 0 /\ ~l2.enabled /\ ~stripLogs
                                    THEN TRUE ELSE @]
        ELSE l2

\* faulty variant of setConfig: every instance on the heap is configured
setConfigEverywhere(ls, self, config) ==
    [ i \in DOMAIN ls |-> applyConfig(ls[i], config) ]

\* faulty variant of setConfig: the cached children are not visited
setConfigSelfOnly(ls, self, config) ==
    [ls EXCEPT ![self] = applyConfig(@, config)]

RECURSIVE setConfig(_, _, _), setConfigEach(_, _, _)
\* this.setConfig(config): this instance, then every cached child, recursively
setConfig(ls, self, config) ==
    LET ls1 == [ls EXCEPT ![self] = applyConfig(@, config)]
    IN  setConfigEach(ls1, {ls1[self].children[n] : n \in DOMAIN ls1[self].children}, config)

\* this.children.forEach(child => child.setConfig(config))
setConfigEach(ls, todo, config) ==
    IF todo = {} THEN ls
    ELSE LET c == CHOOSE x \in todo : TRUE
         IN  setConfigEach(setConfig(ls, c, config), todo \ {c}, config)

\* ----- getLogger -----
RECURSIVE split(_)
\* path.split('.')
split(path) ==
    IF \A i \in 1..Len(path) : path[i] # Dot
    THEN <<path>>
    ELSE LET i == CHOOSE j \in 1..Len(path) :
                      path[j] = Dot /\ \A k \in 1..(j - 1) : path[k] # Dot
         IN  <<SubSeq(path, 1, i - 1)>> \o split(SubSeq(path, i + 1, Len(path)))

\* faulty variant of walk: a missing prefix gets a logger of its own instead of
\* the parent's child
RECURSIVE walkDetached(_, _, _, _, _, _)
walkDetached(ls, reg, parts, i, currentLogger, currentPath) ==
    IF i > Len(parts) THEN [ls |-> ls, reg |-> reg, ret |-> currentLogger]
    ELSE LET path == currentPath \o <<Dot>> \o parts[i]
         IN  IF ~Has(reg, path)
             THEN walkDetached(Append(ls, Logger([namespace |-> path], Len(ls) + 1)),
                               Assign(reg, path :> (Len(ls) + 1)), parts, i + 1,
                               Len(ls) + 1, path)
             ELSE walkDetached(ls, reg, parts, i + 1, reg[path], path)

RECURSIVE walk(_, _, _, _, _, _)
\* the for loop of getLogger from index i on
walk(ls, reg, parts, i, currentLogger, currentPath) ==
    IF i > Len(parts) THEN [ls |-> ls, reg |-> reg, ret |-> currentLogger]
    ELSE LET childName == parts[i]
             path == currentPath \o <<Dot>> \o childName
         IN  IF ~Has(reg, path)
             THEN LET c == child(ls, currentLogger, childName, noKeys)
                  IN  walk(c.ls, Assign(reg, path :> c.ret), parts, i + 1, c.ret, path)
             ELSE walk(ls, reg, parts, i + 1, reg[path], path)

\* faulty variant of getLogger: the root is made anew without looking it up
getLoggerFreshRoot(ls, reg, path) ==
    IF Has(reg, path) THEN [ls |-> ls, reg |-> reg, ret |-> reg[path]]
    ELSE LET parts == split(path)
             rootName == parts[1]
         IN  walk(Append(ls, Logger([namespace |-> rootName], Len(ls) + 1)),
                  Assign(reg, rootName :> (Len(ls) + 1)), parts, 2, Len(ls) + 1, rootName)

getLogger(ls, reg, path) ==
    IF Has(reg, path) THEN [ls |-> ls, reg |-> reg, ret |-> reg[path]]
    ELSE LET parts == split(path)
             rootName == parts[1]
             hasRoot == Has(reg, rootName)
             ls1 == IF hasRoot THEN ls
                    ELSE Append(ls, Logger([namespace |-> rootName], Len(ls) + 1))
             reg1 == IF hasRoot THEN reg ELSE Assign(reg, rootName :> Len(ls) + 1)
         IN  walk(ls1, reg1, parts, 2, reg1[rootName], rootName)

\* ----- console formatter -----
Digits == <<"0", "1", "2", "3", "4", "5", "6", "7", "8", "9">>

TwoDigits(n) == <<Digits[(n \div 10) + 1], Digits[(n % 10) + 1]>>

\* new Date().toISOString().substring(11, 19) for the instant now (epoch seconds)
timestamp(now) ==
    TwoDigits((now \div 3600) % 24) \o <<":">> \o TwoDigits((now \div 60) % 60)
        \o <<":">> \o TwoDigits(now % 60)

\* faulty variant of formatConsoleMessage: the namespace is left out
formatWithoutNamespace(ns, msg, now) ==
    timestamp(now) \o <<" ">> \o msg

\* `${timestamp} [${ns}] ${msg}`
formatConsoleMessage(ns, msg, now) ==
    timestamp(now) \o <<" ", "[">> \o ns \o <<"]", " ">> \o msg

\* writeToConsole: one call of console[method] with the formatted line
writeToConsole(level, ns, msg, now) ==
    [k      |-> "console",
     method |-> IF level = "debug" THEN "log" ELSE level,
     line   |-> formatConsoleMessage(ns, msg, now)]

\* ----- Logger.emit -----
\* the early returns of emit: TRUE when the call is dropped
\* faulty variant of gated: the enabled flag is not consulted
gateNoEnabledCheck(this, level) ==
    level # "error" /\ ~pinoAvailable /\ ~levelEnabled(level, this.minLevel)

\* faulty variant of gated: error calls are gated like the others
gateErrorToo(this, level) ==
    ~this.enabled \/ (~pinoAvailable /\ ~levelEnabled(level, this.minLevel))

gated(this, level) ==
    level # "error" /\ (~this.enabled
                        \/ (~pinoAvailable /\ ~levelEnabled(level, this.minLevel)))

\* faulty variant of buildEntry: the context stays in the arguments
buildEntryNoShift(message, args) ==
    LET hasContext == Len(args) > 0 /\ isPlainObject(args[1]) /\ ~isError(args[1])
        context0 == IF hasContext THEN args[1].fields ELSE noKeys
        lift == hasContext /\ Has(context0, "error") /\ isError(context0.error)
        context == IF lift THEN Without(context0, "error") ELSE context0
        entry0 == Assign([msg |-> Str(message)], context)
    IN  [entry |-> IF lift
                   THEN Assign(entry0, [err |-> [tag     |-> "errObj",
                                                 name    |-> context0.error.name,
                                                 message |-> context0.error.message,
                                                 stack   |-> context0.error.stack]])
                   ELSE entry0,
         rest  |-> args]

\* faulty variant of buildEntry: context.error is not deleted after lifting
buildEntryKeepsError(message, args) ==
    LET hasContext == Len(args) > 0 /\ isPlainObject(args[1]) /\ ~isError(args[1])
        context == IF hasContext THEN args[1].fields ELSE noKeys
        lift == hasContext /\ Has(context, "error") /\ isError(context.error)
        entry0 == Assign([msg |-> Str(message)], context)
    IN  [entry |-> IF lift
                   THEN Assign(entry0, [err |-> [tag     |-> "errObj",
                                                 name    |-> context.error.name,
                                                 message |-> context.error.message,
                                                 stack   |-> context.error.stack]])
                   ELSE entry0,
         rest  |-> IF hasContext THEN Tail(args) ELSE args]

\* context extraction, error lifting and the entry object; rest are the
\* arguments left for the backend
buildEntry(message, args) ==
    LET hasContext == Len(args) > 0 /\ isPlainObject(args[1]) /\ ~isError(args[1])
        context0 == IF hasContext THEN args[1].fields ELSE noKeys
        lift == hasContext /\ Has(context0, "error") /\ isError(context0.error)
        context == IF lift THEN Without(context0, "error") ELSE context0
        entry0 == Assign([msg |-> Str(message)], context)
    IN  [entry |-> IF lift
                   THEN Assign(entry0, [err |-> [tag     |-> "errObj",
                                                 name    |-> context0.error.name,
                                                 message |-> context0.error.message,
                                                 stack   |-> context0.error.stack]])
                   ELSE entry0,
         rest  |-> IF hasContext THEN Tail(args) ELSE args]

RECURSIVE handleAll(_, _, _, _, _, _)
\* for (const transport of this.transports) transport.handle(...), from index
\* i on: the handle calls made, and whether one of them threw (which ends
\* the loop)
handleAll(ts, i, level, ns, message, entry) ==
    IF i > Len(ts) THEN [events |-> <<>>, thrown |-> FALSE]
    ELSE LET handled == [k |-> "transport", transport |-> ts[i].name, level |-> level,
                         ns |-> ns, message |-> message, context |-> entry]
         IN  IF ts[i].throws
             THEN [events |-> <<handled>>, thrown |-> TRUE]
             ELSE LET r == handleAll(ts, i + 1, level, ns, message, entry)
                  IN  [events |-> <<handled>> \o r.events, thrown |-> r.thrown]

\* faulty variant of fanOut: no try/catch around the loop
fanOutNoCatch(ts, level, ns, message, entry) ==
    handleAll(ts, 1, level, ns, message, entry)

\* the list ts back to front
Reversed(ts) == [ i \in DOMAIN ts |-> ts[Len(ts) + 1 - i] ]

\* faulty variant of fanOut: the transports are taken from the end of the list
fanOutBackwards(ts, level, ns, message, entry) ==
    LET r == handleAll(Reversed(ts), 1, level, ns, message, entry)
    IN  IF r.thrown
        THEN [events |-> r.events \o <<[k |-> "diagnostic", method |-> "error"]>>,
              thrown |-> FALSE]
        ELSE r

\* if (transports.length > 0) try { the loop } catch { console.error(...) }
fanOut(ts, level, ns, message, entry) ==
    LET r == handleAll(ts, 1, level, ns, message, entry)
    IN  IF r.thrown
        THEN [events |-> r.events \o <<[k |-> "diagnostic", method |-> "error"]>>,
              thrown |-> FALSE]
        ELSE r

\* faulty variant of consoleStage: only disableConsole is consulted
consoleStageUnfiltered(this, level, message, writeConsole, now) ==
    IF ~this.disableConsole
    THEN <<writeToConsole(level, this.namespace, message, now)>>
    ELSE <<>>

\* faulty variant of consoleStage: disableConsole is not consulted
consoleStageAlways(this, level, message, writeConsole, now) ==
    IF writeConsole /\ level # "debug"
    THEN <<writeToConsole(level, this.namespace, message, now)>>
    ELSE <<>>

\* if (writeConsole && level !== 'debug' && !this.disableConsole) writeToConsole(...)
consoleStage(this, level, message, writeConsole, now) ==
    IF writeConsole /\ level # "debug" /\ ~this.disableConsole
    THEN <<writeToConsole(level, this.namespace, message, now)>>
    ELSE <<>>

\* this.emit(level, message, args, writeConsole) at the instant now: the calls
\* it makes, in order, and whether it throws to its caller.  backendThrows
\* says whether the backend's level method throws: the call is made outside
\* every try block, so its exception leaves emit at once.
emitWith(this, level, message, args, writeConsole, now, backendThrows) ==
    IF gated(this, level) THEN [out |-> <<>>, threw |-> FALSE]
    ELSE
    LET e == buildEntry(message, args)
        structured == <<[k |-> "backend", backend |-> this.backend, level |-> level,
                         entry |-> e.entry, args |-> e.rest]>>
        fan == fanOut(this.transports.ts, level, this.namespace, message, e.entry)
    IN  IF backendThrows
        THEN [out |-> structured, threw |-> TRUE]
        ELSE IF fan.thrown
        THEN [out |-> structured \o fan.events, threw |-> TRUE]
        ELSE [out   |-> structured \o fan.events
                            \o consoleStage(this, level, message, writeConsole, now),
              threw |-> FALSE]

\* the emission with a backend whose methods return
emit(this, level, message, args, writeConsole, now) ==
    emitWith(this, level, message, args, writeConsole, now, FALSE)

\* ----- inputs -----
BindingsIn == { noKeys, [svc |-> Str(<<"s">>)] }

CtorOptions ==
    { noKeys,
      [enabled |-> FALSE],
      [namespace |-> emptyString, level |-> "warn",
       transports |-> listOk] }

Paths == { <<"A">>, <<"A", Dot, "B">>, emptyString }

Names == { <<"B">>, <<"B", Dot, "C">> }

Configs ==
    { noKeys,
      [enabled |-> TRUE],
      [enabled |-> FALSE],
      [level |-> "warn", disableConsole |-> TRUE, maxFiles |-> "5"],
      [transports |-> listEmpty],
      [transports |-> listBad],
      [namespace |-> <<"Z">>] }

Messages == { <<"x">> }

boom == ErrorValue(<<"E">>, <<"b">>, <<"s">>)

Args ==
    { <<>>,
      <<PlainObject([error |-> boom, port |-> Str(<<"1">>)])>> }

\* instants (epoch seconds): 12:34:56 on day 0
Times == { 45296 }

NoCall == [op |-> "none"]

\* The module as loaded: the three flags are read once from the environment,
\* the registry is empty.  The loggers the module itself then makes
\* (getLogger('QwickApps') and its commonLoggers children) are GetLogger and
\* Child steps from here.
Init ==
    /\ isProd \in BOOLEAN
    /\ stripLogs \in BOOLEAN
    /\ pinoAvailable \in BOOLEAN
    /\ loggers = <<>>
    /\ loggerRegistry = noKeys
    /\ nSetConfig = 0
    /\ call = NoCall
    /\ ret = 0
    /\ out = <<>>
    /\ threw = FALSE
    /\ dirExists = FALSE
    /\ files = <<>>
    /\ startupLoggers = <<>>
    /\ globalStartupLogger = 0
    /\ nConstructed = 0

\* the application calls new Logger(options)
NewLogger(options, maxLoggers) ==
    /\ Len(loggers) < maxLoggers
    /\ loggers' = Append(loggers, Logger(options, Len(loggers) + 1))
    /\ ret' = Len(loggers) + 1
    /\ call' = [op |-> "new", options |-> options]
    /\ out' = <<>>
    /\ threw' = FALSE
    /\ UNCHANGED <<env, startup, loggerRegistry, nSetConfig>>

\* getLogger(path)
GetLogger(path, maxLoggers) ==
    LET r == getLogger(loggers, loggerRegistry, path) IN
    /\ Len(r.ls) <= maxLoggers
    /\ loggers' = r.ls
    /\ loggerRegistry' = r.reg
    /\ ret' = r.ret
    /\ call' = [op |-> "getLogger", path |-> path]
    /\ out' = <<>>
    /\ threw' = FALSE
    /\ UNCHANGED <<env, startup, nSetConfig>>

\* loggers[self].child(name, bindings)
Child(self, name, bindings, maxLoggers) ==
    LET r == child(loggers, self, name, bindings) IN
    /\ Len(r.ls) <= maxLoggers
    /\ loggers' = r.ls
    /\ ret' = r.ret
    /\ call' = [op |-> "child", self |-> self, name |-> name, bindings |-> bindings]
    /\ out' = <<>>
    /\ threw' = FALSE
    /\ UNCHANGED <<env, startup, loggerRegistry, nSetConfig>>

\* loggers[self].with(bindings)
With(self, bindings, maxLoggers) ==
    /\ Len(loggers) < maxLoggers
    /\ loggers' = Append(loggers, withLogger(loggers[self], bindings, Len(loggers) + 1))
    /\ ret' = Len(loggers) + 1
    /\ call' = [op |-> "with", self |-> self, bindings |-> bindings]
    /\ out' = <<>>
    /\ threw' = FALSE
    /\ UNCHANGED <<env, startup, loggerRegistry, nSetConfig>>

\* loggers[self].setConfig(config)
SetConfig(self, config, maxSetConfig) ==
    /\ nSetConfig < maxSetConfig
    /\ nSetConfig' = nSetConfig + 1
    /\ loggers' = setConfig(loggers, self, config)
    /\ ret' = 0
    /\ call' = [op |-> "setConfig", self |-> self, config |-> config]
    /\ out' = <<>>
    /\ threw' = FALSE
    /\ UNCHANGED <<env, startup, loggerRegistry>>

\* what every level method does: emit, and nothing else
Emission(self, level, message, args, writeConsole, now) ==
    LET r == emit(loggers[self], level, message, args, writeConsole, now) IN
    /\ out' = r.out
    /\ threw' = r.threw
    /\ ret' = 0
    /\ call' = [op |-> level, self |-> self, message |-> message, args |-> args, now |-> now]
    /\ UNCHANGED <<env, startup, loggers, loggerRegistry, nSetConfig>>

\* loggers[self].debug(message, ...args)
Debug(self, message, args, now) == Emission(self, "debug", message, args, FALSE, now)

\* loggers[self].info(message, ...args)
Info(self, message, args, now) == Emission(self, "info", message, args, TRUE, now)

\* loggers[self].warn(message, ...args)
Warn(self, message, args, now) == Emission(self, "warn", message, args, TRUE, now)

\* loggers[self].error(message, ...args)
Error(self, message, args, now) == Emission(self, "error", message, args, TRUE, now)

\* loggers[self][level](message, ...args) when the pino logger's method
\* throws (the methods of the two fallback backends have empty bodies)
BackendThrows(self, level, message, args, now) ==
    LET r == emitWith(loggers[self], level, message, args, level # "debug", now, TRUE) IN
    /\ loggers[self].backend.kind = "pino"
    /\ out' = r.out
    /\ threw' = r.threw
    /\ ret' = 0
    /\ call' = [op |-> level, self |-> self, message |-> message, args |-> args,
                now |-> now, backendThrows |-> TRUE]
    /\ UNCHANGED <<env, startup, loggers, loggerRegistry, nSetConfig>>

Instances == 1..Len(loggers)

\* the operations that build and configure loggers, within the bounds given
Build(maxLoggers, maxSetConfig) ==
    \/ \E o \in CtorOptions : NewLogger(o, maxLoggers)
    \/ \E p \in Paths : GetLogger(p, maxLoggers)
    \/ \E self \in Instances, n \in Names, b \in BindingsIn : Child(self, n, b, maxLoggers)
    \/ \E self \in Instances, b \in BindingsIn : With(self, b, maxLoggers)
    \/ \E self \in Instances, c \in Configs : SetConfig(self, c, maxSetConfig)

NextTree == Build(TreeLoggers, TreeSetConfig)

SpecTree == Init /\ [][NextTree]_vars

Next ==
    \/ Build(MaxLoggers, MaxSetConfig)
    \/ \E self \in Instances, m \in Messages, a \in Args, t \in Times : Debug(self, m, a, t)
    \/ \E self \in Instances, m \in Messages, a \in Args, t \in Times : Info(self, m, a, t)
    \/ \E self \in Instances, m \in Messages, a \in Args, t \in Times : Warn(self, m, a, t)
    \/ \E self \in Instances, m \in Messages, a \in Args, t \in Times : Error(self, m, a, t)

Spec == Init /\ [][Next]_vars

\* ----- a backend that fails: one logger, one setConfig, the four levels -----
FailLoggers == 1
FailSetConfig == 1

NextFail ==
    \/ \E o \in CtorOptions : NewLogger(o, FailLoggers)
    \/ \E self \in Instances, c \in Configs : SetConfig(self, c, FailSetConfig)
    \/ \E self \in Instances, level \in LogLevel, m \in Messages, a \in Args, t \in Times :
          BackendThrows(self, level, m, a, t)

SpecFail == Init /\ [][NextFail]_vars

\* ----- configuration histories: one family of loggers, several setConfig calls -----
ConfigLoggers == 3
ConfigSetConfig == 2

FamilyName == <<"B">>

NextConfig ==
    \/ \E o \in CtorOptions : NewLogger(o, ConfigLoggers)
    \/ \E self \in Instances : Child(self, FamilyName, noKeys, ConfigLoggers)
    \/ \E self \in Instances, c \in Configs : SetConfig(self, c, ConfigSetConfig)

SpecConfig == Init /\ [][NextConfig]_vars

\* ----- namespace paths: getLogger and child with arbitrary strings -----
PathLoggers == 4

PathsAny ==
    { emptyString, Anonymous, <<"A">>, <<"A", Dot, "B">>,
      <<"A", Dot, "B", Dot, "C">>, <<"A", Dot, Dot, "C">>, <<Dot, "B">> }

NamesAny == { <<"B">>, <<"C">>, <<"B", Dot, "C">>, emptyString }

NextPaths ==
    \/ \E p \in PathsAny : GetLogger(p, PathLoggers)
    \/ \E self \in Instances, n \in NamesAny : Child(self, n, noKeys, PathLoggers)

SpecPaths == Init /\ [][NextPaths]_vars

\* ----- one logger, every shape of call -----
EmitLoggers == 1
EmitSetConfig == 1

MessagesAny == { <<"x">>, <<"u", "p">> }

ArgsAny ==
    { <<>>,
      <<PlainObject([error |-> boom, port |-> Str(<<"1">>)])>>,
      <<PlainObject([error |-> boom, err |-> Str(<<"k">>)])>>,
      <<PlainObject([error |-> Str(<<"e">>)])>>,
      <<PlainObject([error |-> Str(<<"e">>), err |-> Str(<<"k">>)])>>,
      <<PlainObject([port |-> Str(<<"1">>)]), boom>>,
      <<boom>>,
      <<Str(<<"s">>), PlainObject([error |-> boom])>>,
      <<PlainObject([msg |-> Str(<<"k">>)])>> }

\* 12:34:56 on day 0, 23:59:59 on day 1, 00:00:00 on day 2
TimesAny == { 45296, 172799, 172800 }

NextEmit ==
    \/ \E o \in CtorOptions : NewLogger(o, EmitLoggers)
    \/ \E self \in Instances, c \in Configs : SetConfig(self, c, EmitSetConfig)
    \/ \E self \in Instances, m \in MessagesAny, a \in ArgsAny, t \in TimesAny :
          Debug(self, m, a, t)
    \/ \E self \in Instances, m \in MessagesAny, a \in ArgsAny, t \in TimesAny :
          Info(self, m, a, t)
    \/ \E self \in Instances, m \in MessagesAny, a \in ArgsAny, t \in TimesAny :
          Warn(self, m, a, t)
    \/ \E self \in Instances, m \in MessagesAny, a \in ArgsAny, t \in TimesAny :
          Error(self, m, a, t)

SpecEmit == Init /\ [][NextEmit]_vars

\* ======================= properties of the emission pipeline =======================

IsEmission == call.op \in LogLevel

\* the logger the last operation was called on
Target == loggers[call.self]

\* the calls of one kind that the last emission made, in order
Kind(k) == SelectSeq(out, LAMBDA e : e.k = k)

\* the gate as the specification words it: error always passes; the other
\* levels pass when the logger is enabled and, without a structured backend,
\* the level is not below minLevel
PassesGate(this, level) ==
    \/ level = "error"
    \/ this.enabled /\ (pinoAvailable \/ levelOrder[level] >= levelOrder[this.minLevel])

NoneThrows(ts) == \A i \in DOMAIN ts : ~ts[i].throws

\* some handle call of the last emission was made on a transport that throws
ThrowerInvoked ==
    \E i \in DOMAIN out :
        /\ out[i].k = "transport"
        /\ \E j \in DOMAIN Target.transports.ts :
               /\ Target.transports.ts[j].name = out[i].transport
               /\ Target.transports.ts[j].throws

DigitSet == {"0", "1", "2", "3", "4", "5", "6", "7", "8", "9"}

\* line reads HH:MM:SS [ns] msg
LineForm(line, ns, msg) ==
    /\ Len(line) = 8 + 2 + Len(ns) + 2 + Len(msg)
    /\ \A i \in {1, 2, 4, 5, 7, 8} : line[i] \in DigitSet
    /\ line[3] = ":" /\ line[6] = ":"
    /\ SubSeq(line, 9, Len(line)) = <<" ", "[">> \o ns \o <<"]", " ">> \o msg

\* C1: a debug, info or warn call on a logger whose enabled flag is false makes
\* no backend call, no transport handle call and writes nothing to the console,
\* in every environment and after any construction, child and setConfig calls.
C1_DisabledIsSilent ==
    (call.op \in {"debug", "info", "warn"} /\ ~Target.enabled) => out = <<>>

\* C1 witness: warn on a disabled logger that has transports, console output
\* on and a threshold warn passes, in a process that does not strip logs
C1_Witness ==
    /\ call.op = "warn"
    /\ ~Target.enabled
    /\ ~stripLogs
    /\ Len(Target.transports.ts) > 0
    /\ ~Target.disableConsole
    /\ levelEnabled("warn", Target.minLevel)

\* C2: an error call is never gated: whatever enabled, the strip flag and
\* minLevel are, it makes exactly one backend.error call, hands
\* ('error', namespace, message) to every registered transport in order when
\* none of them throws, and, unless disableConsole is set, writes exactly one
\* console line HH:MM:SS [namespace] message.
C2_ErrorNeverGated ==
    call.op = "error" =>
        LET ts == Target.transports.ts
            handled == Kind("transport")
        IN  /\ Len(Kind("backend")) = 1
            /\ Kind("backend")[1].level = "error"
            /\ NoneThrows(ts) =>
                   /\ Len(handled) = Len(ts)
                   /\ Kind("diagnostic") = <<>>
                   /\ \A i \in DOMAIN ts :
                          /\ handled[i].transport = ts[i].name
                          /\ handled[i].level = "error"
                          /\ handled[i].ns = Target.namespace
                          /\ handled[i].message = call.message
            /\ ~Target.disableConsole =>
                   /\ Len(Kind("console")) = 1
                   /\ Kind("console")[1].method = "error"
                   /\ LineForm(Kind("console")[1].line, Target.namespace, call.message)
            /\ Target.disableConsole => Kind("console") = <<>>

\* C2 witness: error on a logger that logs are stripped for, with a threshold
\* above debug, transports and console output on
C2_Witness ==
    /\ call.op = "error"
    /\ stripLogs
    /\ ~Target.enabled
    /\ Target.minLevel = "warn"
    /\ Len(Target.transports.ts) > 0
    /\ ~Target.disableConsole

\* C3 as claimed: a debug call produces zero console writes, whatever the
\* logger's state (enabled, minLevel, disableConsole, transports, backend).
C3_DebugWritesNothingToConsole ==
    call.op = "debug" => (Kind("console") = <<>> /\ Kind("diagnostic") = <<>>)

\* C3 as amended: a debug call never writes a console line through the console
\* stage; the only console write it can cause is the one '[LogTransport]'
\* diagnostic on console.error when a transport's handle throws; and when it
\* passes the gate it still makes one backend.debug call and starts the
\* transport fan-out.
C3_DebugNoConsoleLine ==
    call.op = "debug" =>
        LET ts == Target.transports.ts IN
        /\ Kind("console") = <<>>
        /\ Len(Kind("diagnostic")) <= 1
        /\ Kind("diagnostic") # <<>> => ThrowerInvoked
        /\ PassesGate(Target, "debug") =>
               /\ Len(Kind("backend")) = 1
               /\ Kind("backend")[1].level = "debug"
               /\ Len(ts) > 0 => (Kind("transport") # <<>>
                                  /\ Kind("transport")[1].transport = ts[1].name
                                  /\ Kind("transport")[1].level = "debug")

\* C3 witness: a debug call that passes the gate on a logger with console
\* output on, during which a transport throws
C3_Witness ==
    /\ call.op = "debug"
    /\ PassesGate(Target, "debug")
    /\ ~Target.disableConsole
    /\ ThrowerInvoked
    /\ Kind("diagnostic") # <<>>

\* C4 as claimed: every info, warn or error call writes exactly one console
\* line when disableConsole is false, and none when it is true.
C4_AlwaysReachesConsole ==
    call.op \in {"info", "warn", "error"} =>
        Len(Kind("console")) = (IF Target.disableConsole THEN 0 ELSE 1)

\* C4 as amended: every error call, and every info or warn call that passes the
\* gate, makes one backend call and writes exactly one console line when
\* disableConsole is false and none when it is true; an info or warn call that
\* does not pass the gate writes none.
C4_ConsoleWhenPassing ==
    call.op \in {"info", "warn", "error"} =>
        /\ Len(Kind("console")) =
               (IF PassesGate(Target, call.op) /\ ~Target.disableConsole THEN 1 ELSE 0)
        /\ \A i \in DOMAIN Kind("console") : Kind("console")[i].method = call.op
        /\ PassesGate(Target, call.op) => Len(Kind("backend")) = 1

\* C4 witness: a warn call that passes the gate with console output on
C4_Witness ==
    /\ call.op = "warn"
    /\ PassesGate(Target, "warn")
    /\ ~Target.disableConsole
    /\ Len(Kind("console")) = 1

\* C9: on an emission that passes the gate, every registered transport is
\* invoked exactly once, whichever other transports throw.
C9_EveryTransportInvoked ==
    (IsEmission /\ PassesGate(Target, call.op)) =>
        \A i \in DOMAIN Target.transports.ts :
            Len(SelectSeq(out, LAMBDA e : e.k = "transport"
                                          /\ e.transport = Target.transports.ts[i].name)) = 1

\* C10: an exception thrown by a transport's handle never leaves
\* debug/info/warn/error: the call returns normally, one diagnostic goes to
\* console.error, and the console stage of an info/warn/error call on a logger
\* with disableConsole false still runs, after the fan-out.
C10_TransportThrowContained ==
    IsEmission =>
        /\ ~threw
        /\ ThrowerInvoked =>
               /\ Len(Kind("diagnostic")) = 1
               /\ (call.op # "debug" /\ ~Target.disableConsole) =>
                      /\ out[Len(out)].k = "console"
                      /\ out[Len(out) - 1].k = "diagnostic"

\* C10 witness: an info call during which a transport threw, console output on
C10_Witness ==
    /\ call.op = "info"
    /\ ThrowerInvoked
    /\ ~Target.disableConsole

\* ======================= properties of the registry and the child caches =======================

\* every registry entry and every child-cache entry of the current state is
\* still there, with the same instance, in the next state
RegistryKept ==
    \A p \in DOMAIN loggerRegistry :
        p \in DOMAIN loggerRegistry' /\ loggerRegistry'[p] = loggerRegistry[p]

ChildrenKept ==
    \A id \in Instances :
        \A n \in DOMAIN loggers[id].children :
            /\ n \in DOMAIN loggers'[id].children
            /\ loggers'[id].children[n] = loggers[id].children[n]

\* C5: a registry entry, once created, is never replaced or removed, and
\* getLogger(p) returns the instance registered under p: two getLogger(p) calls
\* return the identical instance whatever getLogger, child, with and setConfig
\* calls come between them.
C5_RegistryStable ==
    [][ /\ RegistryKept
        /\ call'.op = "getLogger" =>
               /\ call'.path \in DOMAIN loggerRegistry'
               /\ ret' = loggerRegistry'[call'.path] ]_vars

\* C5 witness: getLogger(p) returns an instance that has children and is not
\* the newest one on the heap, after a setConfig call: a repeated call
C5_Witness ==
    /\ call.op = "getLogger"
    /\ ret < Len(loggers)
    /\ loggers[ret].children # noKeys
    /\ nSetConfig > 0

IsDotFree(s) == \A i \in DOMAIN s : s[i] # Dot

\* C6: whenever 'p.n' (n without a dot) is a registry key, p is a key too and
\* registry['p.n'] is the cached child n of registry[p]; getLogger(p + '.' + n)
\* returns the cached child n of getLogger(p) when child(n) came first, and
\* child(n) on getLogger(p) returns registry['p.n'] when getLogger came first.
C6_RegistryAgreesWithChildren ==
    /\ \A key \in DOMAIN loggerRegistry :
           LET parts == split(key)
               n == parts[Len(parts)]
               p == SubSeq(key, 1, Len(key) - Len(n) - 1)
           IN  Len(parts) > 1 =>
                   /\ p \in DOMAIN loggerRegistry
                   /\ n \in DOMAIN loggers[loggerRegistry[p]].children
                   /\ loggerRegistry[key] = loggers[loggerRegistry[p]].children[n]
    /\ \A p \in DOMAIN loggerRegistry :
           \A n \in DOMAIN loggers[loggerRegistry[p]].children :
               IsDotFree(n) =>
                   getLogger(loggers, loggerRegistry, p \o <<Dot>> \o n).ret
                       = loggers[loggerRegistry[p]].children[n]
    /\ (call.op = "child" /\ IsDotFree(call.name)) =>
           \A p \in DOMAIN loggerRegistry :
               (loggerRegistry[p] = call.self
                    /\ (p \o <<Dot>> \o call.name) \in DOMAIN loggerRegistry)
                   => ret = loggerRegistry[p \o <<Dot>> \o call.name]

\* C6 witness: getLogger('p.n') returns a child that child(n, bindings) had
\* created before (it carries bindings, which getLogger never passes)
C6_Witness ==
    /\ call.op = "getLogger"
    /\ Len(split(call.path)) > 1
    /\ pinoAvailable
    /\ "svc" \in DOMAIN loggers[ret].backend.bindings

\* C7: a cached child is never evicted or replaced, and P.child(n, b) returns
\* the instance cached under n, whatever bindings b and whatever setConfig
\* calls came in between.
C7_ChildMemoized ==
    [][ /\ ChildrenKept
        /\ call'.op = "child" =>
               /\ call'.name \in DOMAIN loggers'[call'.self].children
               /\ ret' = loggers'[call'.self].children[call'.name] ]_vars

\* C7 witness: child(n, b) with bindings returns, after a setConfig, a child
\* that was created without them
C7_Witness ==
    /\ call.op = "child"
    /\ call.bindings # noKeys
    /\ pinoAvailable
    /\ "svc" \notin DOMAIN loggers[ret].backend.bindings
    /\ nSetConfig > 0

NamespaceOfChildren ==
    \A id \in Instances :
        \A n \in DOMAIN loggers[id].children :
            loggers[loggers[id].children[n]].namespace
                = loggers[id].namespace \o <<Dot>> \o n

\* C8: for every entry (n -> C) of a logger P's child cache, C.namespace is
\* P.namespace + '.' + n, and no step (setConfig with a namespace field
\* included) changes the namespace of an existing logger.
C8_NamespaceInvariant ==
    [][ /\ NamespaceOfChildren'
        /\ \A id \in Instances : loggers'[id].namespace = loggers[id].namespace ]_vars

\* C8 witness: setConfig with a namespace field on a logger that has children
C8_Witness ==
    /\ call.op = "setConfig"
    /\ "namespace" \in DOMAIN call.config
    /\ loggers[call.self].children # noKeys

\* ======================= properties of configuration =======================

RECURSIVE Reach(_, _)
\* the instances reachable from the set S through child caches, S included
Reach(ls, S) ==
    LET next == S \cup UNION { { ls[i].children[n] : n \in DOMAIN ls[i].children } : i \in S }
    IN  IF next = S THEN S ELSE Reach(ls, next)

\* the instance the last setConfig was called on, and its cached descendants
Family == Reach(loggers, {call.self})

\* the field of an instance that an option of the partial is stored in
FieldOf(l, k) == IF k = "level" THEN l.minLevel ELSE l[k]

\* the options setConfig stores as they are
StoredOptions ==
    {"logDir", "logFileName", "disableConsole", "maxSize", "maxFiles", "frequency",
     "level", "transports"}

NonEmptyTransports(config) ==
    Has(config, "transports") /\ Len(config.transports.ts) > 0

\* C11 as stated: after P.setConfig(partial), P and every cached descendant
\* have the partial's non-empty transport list and are enabled (strip flag
\* unset), and every field present in the partial has the same value on P and
\* on all cached descendants.
C11_EveryFieldSame ==
    call.op = "setConfig" =>
        /\ (NonEmptyTransports(call.config) /\ ~stripLogs) =>
               \A d \in Family : /\ loggers[d].transports = call.config.transports
                                  /\ loggers[d].enabled
        /\ \A k \in DOMAIN call.config : \A d \in Family :
               FieldOf(loggers[d], k) = FieldOf(loggers[call.self], k)

\* C11 amended: after P.setConfig(partial), P and every cached descendant at
\* any depth have the partial's non-empty transport list and are enabled
\* (strip flag unset); every option of the partial that setConfig stores
\* (logDir, logFileName, disableConsole, maxSize, maxFiles, frequency, level,
\* transports) has the partial's value on P and on all cached descendants;
\* enabled is decided on each of them from its own transport list.
C11_SetConfigPropagates ==
    call.op = "setConfig" =>
        /\ (NonEmptyTransports(call.config) /\ ~stripLogs) =>
               \A d \in Family : /\ loggers[d].transports = call.config.transports
                                  /\ loggers[d].enabled
        /\ \A k \in (DOMAIN call.config) \cap StoredOptions : \A d \in Family :
               FieldOf(loggers[d], k) = call.config[k]
        /\ (Has(call.config, "enabled") /\ ~Has(call.config, "transports")) =>
               \A d \in Family :
                   loggers[d].enabled =
                       (/\ ~stripLogs
                        /\ call.config.enabled
                        /\ (~isProd \/ pinoAvailable \/ Len(loggers[d].transports.ts) > 0))

\* a second setConfig, with a non-empty transport list, on a logger that has a
\* cached child and grandchild, in production without pino
C11_Witness ==
    /\ call.op = "setConfig"
    /\ nSetConfig = 2
    /\ NonEmptyTransports(call.config)
    /\ isProd /\ ~pinoAvailable /\ ~stripLogs
    /\ Cardinality(Family) = 3
    /\ \A d \in Family : loggers[d].enabled

\* a step that is a call of setConfig
IsSetConfigStep == call'.op = "setConfig" /\ nSetConfig' = nSetConfig + 1

\* C12 as stated: after setConfig(partial) with enabled or transports in the
\* partial, enabled is what the constructor computes for the resulting state:
\* NOT strip AND (explicit enabled setting not false) AND (NOT production OR
\* backend available OR resulting transport list non-empty).  The explicit
\* setting is the partial's, or else that of the new Logger(options) call
\* that has just made the instance.
C12_EnabledRecomputed ==
    [][ (IsSetConfigStep /\ (Has(call'.config, "enabled") \/ Has(call'.config, "transports")))
        => LET config == call'.config
               after == loggers'[call'.self]
               known == Has(config, "enabled") \/ (call.op = "new" /\ ret = call'.self)
               explicit == IF Has(config, "enabled") THEN config.enabled
                           ELSE OptOr(call.options, "enabled", TRUE) # FALSE
           IN  known => after.enabled =
                            (/\ ~stripLogs
                             /\ explicit
                             /\ (~isProd \/ pinoAvailable \/ Len(after.transports.ts) > 0))
      ]_vars

\* what the claim says the constructor decides
EnableDecision(options) ==
    IF stripLogs THEN FALSE
    ELSE IF Has(options, "enabled") /\ options.enabled = FALSE THEN FALSE
    ELSE IF isProd /\ ~pinoAvailable /\ ~NonEmptyTransports(options) THEN FALSE
    ELSE TRUE

\* options.enabled absent, true or false, with transports absent, empty or not
EnableCombinations ==
    { Assign(e, t) : e \in { noKeys, [enabled |-> TRUE], [enabled |-> FALSE] },
                     t \in { noKeys, [transports |-> listEmpty], [transports |-> listOk] } }

\* C13: a logger is constructed disabled when the strip flag is set, else
\* when options.enabled is false, else when in production with neither pino
\* nor a non-empty transport list; otherwise enabled.  For the instance just
\* constructed and for every combination of options.enabled and transports.
C13_EnableDecision ==
    /\ call.op = "new" => loggers[ret].enabled = EnableDecision(call.options)
    /\ \A o \in EnableCombinations : Logger(o, 1).enabled = EnableDecision(o)

\* a logger constructed enabled only because of its transports
C13_Witness ==
    /\ call.op = "new"
    /\ isProd /\ ~pinoAvailable /\ ~stripLogs
    /\ NonEmptyTransports(call.options)
    /\ loggers[ret].enabled

\* C19 as stated: right after P.child(n) has made a new child C, C has P's
\* enabled flag, minimum level, disableConsole flag and transport list (the
\* same list object).
C19_NewChildInherits ==
    [][ (call'.op = "child" /\ Len(loggers') = Len(loggers) + 1)
        => LET P == loggers'[call'.self]
               C == loggers'[ret']
           IN  /\ C.enabled = P.enabled
               /\ C.minLevel = P.minLevel
               /\ C.disableConsole = P.disableConsole
               /\ C.transports = P.transports
      ]_vars

\* ======================= properties of one call =======================

\* the call has a leading plain-object context
LeadingContext == Len(call.args) > 0 /\ call.args[1].tag = "object"

\* its own properties
Ctx == call.args[1].fields

\* the entry given to the backend and the copies given to the transports
EntriesSeen ==
    { e.entry : e \in { out[i] : i \in { j \in DOMAIN out : out[j].k = "backend" } } }
        \cup { e.context : e \in { out[i] : i \in { j \in DOMAIN out : out[j].k = "transport" } } }

\* C14: when the leading context has an Error under 'error', the entry given
\* to the backend and every copy given to a transport have no 'error' key and
\* have err = {name, message, stack} of that Error; when context.error is not
\* an Error it is passed on unchanged under 'error' and no 'err' key is added.
C14_ErrorLifting ==
    (IsEmission /\ out # <<>> /\ LeadingContext /\ Has(Ctx, "error")) =>
        /\ Len(Kind("backend")) = 1
        /\ \A e \in EntriesSeen :
              IF Ctx.error.tag = "Error"
              THEN /\ ~Has(e, "error")
                   /\ Has(e, "err")
                   /\ e.err = [tag     |-> "errObj",
                               name    |-> Ctx.error.name,
                               message |-> Ctx.error.message,
                               stack   |-> Ctx.error.stack]
              ELSE /\ Has(e, "error")
                   /\ e.error = Ctx.error
                   /\ Has(e, "err") => (Has(Ctx, "err") /\ e.err = Ctx.err)

\* an Error under context.error, lifted for the backend and two transports
C14_Witness ==
    /\ IsEmission
    /\ LeadingContext /\ Has(Ctx, "error") /\ Ctx.error.tag = "Error" /\ Has(Ctx, "err")
    /\ Len(Kind("backend")) = 1
    /\ Len(Kind("transport")) = 2
    /\ Cardinality(EntriesSeen) = 1

\* the number a decimal digit stands for
DigitValue(c) == CHOOSE d \in 0..9 : Digits[d + 1] = c

\* the two digits at i and i+1 of line, as a number
Field(line, i) == 10 * DigitValue(line[i]) + DigitValue(line[i + 1])

\* the console lines of a sequence of calls
ConsoleLines(calls) == SelectSeq(calls, LAMBDA e : e.k = "console")

C16_ProductionDefaultSilent ==
    (isProd /\ nSetConfig = 0) =>
        /\ call.op = "getLogger" => ~loggers[ret].enabled
        /\ (call.op = "new" /\ ~Has(call.options, "enabled")
                            /\ ~Has(call.options, "transports")) => ~loggers[ret].enabled
        /\ (IsEmission /\ call.op # "error" /\ Target.transports.ts = <<>>) => out = <<>>

\* C20 as stated: a call whose level is strictly below the logger's minimum
\* level makes no transport call and writes nothing to the console, whether
\* or not pino is available.
C20_BelowMinimumIsSilent ==
    (IsEmission /\ levelOrder[call.op] < levelOrder[Target.minLevel]) =>
        /\ Kind("transport") = <<>>
        /\ Kind("console") = <<>>

\* C18 as stated: with pino available, the backend of a cached child C of P
\* carries every binding of P's backend (the namespace field apart, which
\* names the child) besides its own.
C18_BindingsInherited ==
    pinoAvailable =>
        \A p \in Instances : \A n \in DOMAIN loggers[p].children :
            LET P == loggers[p].backend
                C == loggers[loggers[p].children[n]].backend
            IN  /\ Has(C.bindings, "ns")
                /\ \A k \in (DOMAIN P.bindings) \ {"ns"} :
                       Has(C.bindings, k) /\ C.bindings[k] = P.bindings[k]

\* the instances reachable from the registry through child caches
Reachable ==
    Reach(loggers, { loggerRegistry[k] : k \in DOMAIN loggerRegistry })

NamespaceUnique ==
    \A a, b \in Reachable : loggers[a].namespace = loggers[b].namespace => a = b

\* no getLogger path so far began with an empty segment, and no child was
\* asked for under a name with a dot in it
CleanNames ==
    /\ emptyString \notin DOMAIN loggerRegistry
    /\ \A i \in Instances : \A n \in DOMAIN loggers[i].children : IsDotFree(n)

\* C17 as stated: after any getLogger(path) and child(name) calls, with any
\* path and name strings, no two distinct instances reachable from the
\* registry or a child cache have the same namespace.
C17_OneInstancePerNamespace == NamespaceUnique

\* C17 amended: after any getLogger(path) and child(name) calls in which no
\* path begins with an empty segment and no child name contains a dot (empty
\* names and empty later segments allowed), no two distinct instances
\* reachable from the registry or a child cache have the same namespace.
C17_OneInstancePerCleanNamespace == CleanNames => NamespaceUnique

\* four instances made by getLogger and child, one under an empty name, with
\* a root called Anonymous
C17_Witness ==
    /\ CleanNames
    /\ Len(loggers) = 4
    /\ Reachable = Instances
    /\ Anonymous \in DOMAIN loggerRegistry
    /\ \E i \in Instances : Has(loggers[i].children, emptyString)
    /\ call.op = "child"


\* every registry key is the namespace of the logger stored under it, and
\* getLogger returns a logger whose namespace is the path, for the keys and
\* paths in which ok holds
KeysAreNamespaces(ok(_)) ==
    /\ \A key \in DOMAIN loggerRegistry :
          ok(key) => loggers[loggerRegistry[key]].namespace = key
    /\ (call.op = "getLogger" /\ ok(call.path)) => loggers[ret].namespace = call.path

AnyPath(p) == TRUE

\* the first segment of the path is not empty
RootNamed(p) == p # emptyString /\ p[1] # Dot

\* C36 as stated: for every path p, the empty one and those with empty
\* segments included, getLogger(p) returns a logger whose namespace is p,
\* and every registry key is the namespace of the logger stored under it.
C36_NamespaceIsPath == KeysAreNamespaces(AnyPath)

\* C36, amended: the same for every path whose first segment is not empty
\* (later segments may be empty, as in 'A..C'); a path with an empty first
\* segment ('' or '.B') has a root with the namespace 'Anonymous'.
C36_NamespaceIsRootedPath ==
    /\ KeysAreNamespaces(RootNamed)
    /\ Has(loggerRegistry, emptyString) =>
          loggers[loggerRegistry[emptyString]].namespace = Anonymous

\* getLogger('A..C'): three registry keys, the last with an empty segment
C36_Witness ==
    /\ call.op = "getLogger"
    /\ call.path = <<"A", Dot, Dot, "C">>
    /\ loggers[ret].namespace = call.path
    /\ loggerRegistry[<<"A", Dot, Dot, "C">>] = ret
    /\ Has(loggerRegistry, <<"A", Dot>>)
    /\ Has(loggerRegistry, emptyString)

\* C37 as stated: the logger that L.with(b) returns is a new instance, in no
\* child cache and not in the registry, with the namespace, the enabled
\* flag, the minimum level and disableConsole of L, and with the transports
\* of L.
C37_WithIsEquivalent ==
    call.op = "with" =>
        LET L == loggers[call.self]
            W == loggers[ret]
        IN  /\ ret = Len(loggers)
            /\ \A i \in Instances : \A n \in DOMAIN loggers[i].children :
                  loggers[i].children[n] # ret
            /\ \A k \in DOMAIN loggerRegistry : loggerRegistry[k] # ret
            /\ W.namespace = L.namespace
            /\ W.minLevel = L.minLevel
            /\ W.disableConsole = L.disableConsole
            /\ W.enabled = L.enabled
            /\ W.transports.ts = L.transports.ts

\* C38 as stated: in every emission that passes the gate, with any context
\* (one with a key 'msg' or 'err' included), the entry given to the backend
\* and every copy given to a transport have msg = the message of the call,
\* and err = the flattened Error when one was lifted.
C38_MessagePreserved ==
    (IsEmission /\ out # <<>>) =>
        \A e \in EntriesSeen :
           /\ e.msg = Str(call.message)
           /\ (LeadingContext /\ Has(Ctx, "error") /\ Ctx.error.tag = "Error") =>
                 e.err = [tag     |-> "errObj",
                          name    |-> Ctx.error.name,
                          message |-> Ctx.error.message,
                          stack   |-> Ctx.error.stack]

\* ======================= properties of the pipeline =======================

\* the positions in out of the calls of kind k
At(k) == { i \in DOMAIN out : out[i].k = k }

\* C23: an emission that passes the gate calls the backend method of its
\* level exactly once, before any transport; the transports are called in
\* list order; every console write comes after every transport call.  An
\* emission that fails the gate does none of this.
C23_PipelineOrder ==
    IsEmission =>
        IF ~PassesGate(Target, call.op) THEN out = <<>>
        ELSE /\ Cardinality(At("backend")) = 1
             /\ out[1].k = "backend"
             /\ out[1].level = call.op
             /\ \A i \in DOMAIN Kind("transport") :
                   /\ i <= Len(Target.transports.ts)
                   /\ Kind("transport")[i].transport = Target.transports.ts[i].name
             /\ \A i \in At("transport") : \A j \in At("console") \cup At("diagnostic") :
                   i < j

\* backend, two transports in list order, then the console line
C23_Witness ==
    /\ IsEmission
    /\ Len(out) = 4
    /\ out[2].k = "transport" /\ out[2].transport = "ok1"
    /\ out[3].k = "transport" /\ out[3].transport = "ok2"
    /\ out[4].k = "console"

\* C24: without pino, on an enabled logger, a debug, info or warn call below
\* the minimum level makes no backend, transport or console call, and one at
\* or above it goes through the pipeline, under debug < info < warn < error;
\* after setConfig({level}) the logger and its cached descendants have the
\* new minimum level, which every later call is held against.
C24_LevelThreshold ==
    /\ levelOrder["debug"] < levelOrder["info"]
    /\ levelOrder["info"] < levelOrder["warn"]
    /\ levelOrder["warn"] < levelOrder["error"]
    /\ (IsEmission /\ ~pinoAvailable /\ Target.enabled /\ call.op # "error") =>
          IF levelOrder[call.op] < levelOrder[Target.minLevel]
          THEN out = <<>>
          ELSE Cardinality(At("backend")) = 1
    /\ (call.op = "setConfig" /\ Has(call.config, "level")) =>
          \A d \in Reach(loggers, {call.self}) : loggers[d].minLevel = call.config.level

\* an info call dropped by the threshold that a setConfig has raised
C24_Witness ==
    /\ IsEmission /\ call.op = "info"
    /\ ~pinoAvailable /\ ~isProd /\ Target.enabled
    /\ nSetConfig = 1
    /\ Target.minLevel = "warn" /\ Target.transports.ts = <<>>
    /\ out = <<>>

\* leading values that are not plain mappings: an Error, a string, an array,
\* an instance of a class
NotPlain ==
    { boom, Str(<<"s">>),
      [tag |-> "array", items |-> <<Str(<<"s">>)>>],
      [tag |-> "instance", class |-> "Date", fields |-> [port |-> Str(<<"1">>)]] }

\* C25: a leading plain mapping is taken out of the arguments, its fields are
\* merged into the entry and the other arguments go to the backend in order;
\* a leading value of any other kind is left where it is, the entry holds
\* the message alone and all arguments go to the backend; the call is not
\* rejected.
C25_ContextExtraction ==
    /\ (IsEmission /\ out # <<>>) =>
          /\ ~threw
          /\ IF Len(call.args) > 0 /\ call.args[1].tag = "object"
             THEN /\ out[1].args = Tail(call.args)
                  /\ \A k \in (DOMAIN call.args[1].fields) \ {"error", "err"} :
                        Has(out[1].entry, k) /\ out[1].entry[k] = call.args[1].fields[k]
             ELSE /\ out[1].args = call.args
                  /\ out[1].entry = [msg |-> Str(call.message)]
    /\ \A v \in NotPlain : \A rest \in { <<>>, <<PlainObject([port |-> Str(<<"1">>)])>> } :
          buildEntry(<<"x">>, <<v>> \o rest)
              = [entry |-> [msg |-> Str(<<"x">>)], rest |-> <<v>> \o rest]

\* a context followed by an Error: the Error alone is left for the backend
C25_Witness ==
    /\ IsEmission
    /\ call.args = <<PlainObject([port |-> Str(<<"1">>)]), boom>>
    /\ Cardinality(At("backend")) = 1
    /\ out[1].args = <<boom>>
    /\ out[1].entry = [msg |-> Str(call.message), port |-> Str(<<"1">>)]


\* ======================= properties of the backend =======================

\* C26: the backend of every Logger is a pino logger iff pino is available,
\* else the console stub iff not in production, else the no-op backend; no
\* step (setConfig included) replaces the backend of an existing Logger; the
\* level methods of the console stub and of the no-op backend do nothing
\* that can be seen, and noopBackend.child returns noopBackend.
C26_BackendSelection ==
    [][ /\ \A i \in DOMAIN loggers' :
              LET b == loggers'[i].backend
              IN  /\ b.kind \in {"pino", "console", "noop"}
                  /\ b.kind = "pino" <=> pinoAvailable
                  /\ b.kind = "console" <=> (~pinoAvailable /\ ~isProd)
                  /\ b.kind = "noop" <=> (~pinoAvailable /\ isProd)
                  /\ i \in DOMAIN loggers => b = loggers[i].backend
                  /\ b.kind # "pino" =>
                        \A level \in LogLevel :
                           backendMethod(b, level, [msg |-> Str(<<"x">>)], <<boom>>) = <<>>
        /\ \A b \in { noKeys, [ns |-> Str(<<"B">>)] } :
              backendChild(noopBackend, b) = noopBackend ]_vars

\* in production without pino, two loggers on the no-op backend after a
\* setConfig
C26_Witness ==
    /\ call.op = "setConfig"
    /\ isProd /\ ~pinoAvailable
    /\ Len(loggers) >= 2
    /\ \A i \in DOMAIN loggers : loggers[i].backend = noopBackend


\* ======================= properties of the enabled flag =======================

\* partials that try to enable: enabled:true, non-empty transports, or both
EnablingConfigs ==
    { [enabled |-> TRUE], [transports |-> listOk], [transports |-> listBad],
      [enabled |-> TRUE, transports |-> listOk] }

\* C27: with the strip flag set, every Logger on the heap is disabled in
\* every reachable state, a setConfig with enabled:true, with non-empty
\* transports or with both leaves every Logger disabled, and a debug, info or
\* warn call produces no output.
C27_StripInvariant ==
    stripLogs =>
        /\ \A i \in DOMAIN loggers :
              /\ ~loggers[i].enabled
              /\ \A c \in EnablingConfigs : \A j \in DOMAIN loggers :
                    ~setConfig(loggers, i, c)[j].enabled
        /\ (IsEmission /\ call.op # "error") => out = <<>>

\* under the strip flag, an info call on a logger whose transports a
\* setConfig has installed: nothing comes out
C27_Witness ==
    /\ stripLogs
    /\ IsEmission /\ call.op = "info"
    /\ nSetConfig = 1
    /\ Len(Target.transports.ts) > 0
    /\ ~Target.enabled
    /\ out = <<>>

\* what loggers[i].debug / info / warn would put out in the state after the step
WouldEmit(i) ==
    UNION { { emit(loggers'[i], level, <<"x">>, <<>>, level # "debug", t).out : t \in Times }
            : level \in LogLevel \ {"error"} }

\* C28: outside production and without the strip flag a Logger is disabled
\* only by enabled:false (its own, or the one it has inherited); such a
\* Logger stays silent on debug, info and warn across every step other
\* than a setConfig whose partial has enabled:true.
C28_ForcedOffStaysOff ==
    [][ (~isProd /\ ~stripLogs) =>
          \A i \in DOMAIN loggers :
             ( /\ ~loggers[i].enabled
               /\ ~( /\ call'.op = "setConfig"
                     /\ Has(call'.config, "enabled")
                     /\ call'.config.enabled ) )
             => WouldEmit(i) = {<<>>} ]_vars


\* ======================= the frame of setConfig =======================

\* what a setConfig step leaves alone whatever the partial: the heap's size,
\* the registry, every namespace, backend and child cache, every instance
\* outside the target's family, every stored option the partial lacks, and
\* everything when the partial is empty
FrameOfSetConfig ==
    LET c == call'.config
        family == Reach(loggers, {call'.self})
    IN  /\ DOMAIN loggers' = DOMAIN loggers
        /\ loggerRegistry' = loggerRegistry
        /\ \A i \in DOMAIN loggers :
              /\ loggers'[i].namespace = loggers[i].namespace
              /\ loggers'[i].backend = loggers[i].backend
              /\ loggers'[i].children = loggers[i].children
              /\ i \notin family => loggers'[i] = loggers[i]
              /\ \A k \in StoredOptions \ DOMAIN c :
                    FieldOf(loggers'[i], k) = FieldOf(loggers[i], k)
              /\ (~Has(c, "enabled") /\ ~Has(c, "transports")) =>
                    /\ loggers'[i].enabled = loggers[i].enabled
                    /\ loggers'[i].transports = loggers[i].transports
        /\ c = noKeys => loggers' = loggers

\* C29 as stated: setConfig changes only the fields present in the partial
\* (enabled without enabled in the partial stays as it is), and the frame
\* above holds.
C29_OnlyFieldsPresent ==
    [][ IsSetConfigStep =>
          /\ FrameOfSetConfig
          /\ ~Has(call'.config, "enabled") =>
                \A i \in DOMAIN loggers : loggers'[i].enabled = loggers[i].enabled ]_vars

\* C29, amended: setConfig changes only the fields present in the partial,
\* except that enabled can also change when the partial has transports; a
\* partial with neither enabled nor transports leaves enabled and the
\* transport list of every instance as they are; namespaces, backends, child
\* caches, the registry and every instance outside the target's family are
\* never changed; the empty partial changes nothing.
C29_SetConfigFrame ==
    [][ IsSetConfigStep => FrameOfSetConfig ]_vars

\* a setConfig with a level on a child that has a parent and a sibling
C29_Witness ==
    /\ call.op = "setConfig"
    /\ Has(call.config, "level")
    /\ Len(loggers) = 3
    /\ Family = {call.self}
    /\ \E p \in DOMAIN loggers : Cardinality(DOMAIN loggers[p].children) = 2
    /\ loggers[call.self].minLevel = call.config.level
    /\ \E i \in DOMAIN loggers : loggers[i].minLevel # call.config.level


\* ======================= a backend that throws =======================

\* C30: when the backend's level method throws during an emission, the
\* caller of debug, info, warn or error sees no exception, the transports
\* of the logger are still called and the console line is still written.
C30_BackendThrowContained ==
    (IsEmission /\ Has(call, "backendThrows") /\ PassesGate(Target, call.op)) =>
        /\ ~threw
        /\ Len(Target.transports.ts) > 0 => Kind("transport") # <<>>
        /\ (call.op # "debug" /\ ~Target.disableConsole) => Kind("console") # <<>>

\* ======================= startup.ts: the StartupLogger =======================

StartupPhase ==
    {"INIT", "CONFIG", "DATABASE", "PAYLOAD", "PLUGINS", "SERVER", "READY", "ERROR",
     "SHUTDOWN"}

\* the characters of each phase name, for template strings
PhaseChars ==
    [ INIT |-> <<"I", "N", "I", "T">>,
      CONFIG |-> <<"C", "O", "N", "F", "I", "G">>,
      DATABASE |-> <<"D", "A", "T", "A", "B", "A", "S", "E">>,
      PAYLOAD |-> <<"P", "A", "Y", "L", "O", "A", "D">>,
      PLUGINS |-> <<"P", "L", "U", "G", "I", "N", "S">>,
      SERVER |-> <<"S", "E", "R", "V", "E", "R">>,
      READY |-> <<"R", "E", "A", "D", "Y">>,
      ERROR |-> <<"E", "R", "R", "O", "R">>,
      SHUTDOWN |-> <<"S", "H", "U", "T", "D", "O", "W", "N">> ]

DEFAULT_CONFIG ==
    [ logPath      |-> "./logs/startup.log",
      maxFileSize  |-> 5 * 1024 * 1024,
      maxBackups   |-> 3,
      includeEnv   |-> TRUE,
      envWhitelist |-> <<>>,
      envBlacklist |-> << <<"P", "A", "Y", "L", "O", "A", "D", "_", "S", "E", "C", "R", "E", "T">>,
                          <<"D", "A", "T", "A", "B", "A", "S", "E", "_", "P", "A", "S", "S", "W", "O", "R", "D">>,
                          <<"A", "P", "I", "_", "K", "E", "Y">>,
                          <<"S", "E", "C", "R", "E", "T">>,
                          <<"T", "O", "K", "E", "N">>,
                          <<"P", "A", "S", "S", "W", "O", "R", "D">>,
                          <<"P", "R", "I", "V", "A", "T", "E", "_", "K", "E", "Y">> >> ]

\* ----- strings of startup.ts -----
UpperCase == <<"A", "B", "C", "D", "E", "F", "G", "H", "I", "J", "K", "L", "M", "N", "O", "P", "Q", "R", "S", "T", "U", "V", "W", "X", "Y", "Z">>

LowerCase == <<"a", "b", "c", "d", "e", "f", "g", "h", "i", "j", "k", "l", "m", "n", "o", "p", "q", "r", "s", "t", "u", "v", "w", "x", "y", "z">>

\* String.prototype.toLowerCase
toLowerCase(s) ==
    [ i \in DOMAIN s |->
        IF \E j \in DOMAIN UpperCase : UpperCase[j] = s[i]
        THEN LowerCase[CHOOSE j \in DOMAIN UpperCase : UpperCase[j] = s[i]]
        ELSE s[i] ]

\* String.prototype.includes
includes(s, pattern) ==
    \E i \in 0..(Len(s) - Len(pattern)) : SubSeq(s, i + 1, i + Len(pattern)) = pattern

\* Array.prototype.includes
arrayIncludes(a, x) == \E i \in DOMAIN a : a[i] = x

REDACTED == <<"[", "R", "E", "D", "A", "C", "T", "E", "D", "]">>

RECURSIVE safeEntriesUnredacted(_, _, _)
\* faulty variant of safeEntries: the blacklist is not looked at
safeEntriesUnredacted(config, processEnv, i) ==
    IF i > Len(processEnv) THEN noKeys
    ELSE LET key == processEnv[i].key
             value == processEnv[i].value
             rest == safeEntriesUnredacted(config, processEnv, i + 1)
         IN  IF value = emptyString THEN rest
             ELSE IF Len(config.envWhitelist) > 0 /\ ~arrayIncludes(config.envWhitelist, key)
             THEN rest
             ELSE Assign(key :> value, rest)

RECURSIVE safeEntries(_, _, _)
\* the loop of getSafeEnv over Object.entries(process.env), from entry i on
safeEntries(config, processEnv, i) ==
    IF i > Len(processEnv) THEN noKeys
    ELSE LET key == processEnv[i].key
             value == processEnv[i].value
             rest == safeEntries(config, processEnv, i + 1)
             blacklistPatterns == [ j \in DOMAIN config.envBlacklist |->
                                      toLowerCase(config.envBlacklist[j]) ]
             isBlacklisted == \E j \in DOMAIN blacklistPatterns :
                                  includes(toLowerCase(key), blacklistPatterns[j])
         IN  IF value = emptyString THEN rest
             ELSE IF Len(config.envWhitelist) > 0 /\ ~arrayIncludes(config.envWhitelist, key)
             THEN rest
             ELSE Assign(key :> (IF isBlacklisted THEN REDACTED ELSE value), rest)

\* StartupLogger.getSafeEnv
getSafeEnv(config, processEnv) == safeEntries(config, processEnv, 1)

\* ----- the files -----
\* a chunk is what one appendFileSync call writes; its length in the unit
\* that maxFileSize is given in
byteLength(chunk) == IF chunk.kind = "header" THEN 2 ELSE 1

RECURSIVE size(_)
\* statSync(path).size of a file with this content
size(content) ==
    IF content = <<>> THEN 0 ELSE byteLength(Head(content)) + size(Tail(content))

existsSync(fs, i) == i \in DOMAIN fs

\* unlinkSync(path i)
unlinkSync(fs, i) == [ j \in (DOMAIN fs) \ {i} |-> fs[j] ]

\* renameSync(path i, path j): j is replaced if it exists
renameSync(fs, i, j) == (j :> fs[i]) @@ unlinkSync(fs, i)

\* What one operation works on: the directory and files, the instance (self),
\* the console writes made so far, and whether an exception is on its way to
\* the caller (every later statement is then skipped).  faults are the file
\* system primitives that fail during the operation.
Machine(self) ==
    [dir |-> dirExists, files |-> files, self |-> self, out |-> <<>>, threw |-> FALSE]

\* appendFileSync(resolve(this.config.logPath), chunk)
appendFileSync(m, chunk, faults) ==
    IF m.threw THEN m
    ELSE IF "append" \in faults \/ ~m.dir THEN [m EXCEPT !.threw = TRUE]
    ELSE [m EXCEPT !.files =
              (0 :> ((IF existsSync(m.files, 0) THEN m.files[0] ELSE <<>>) \o <<chunk>>))
                  @@ m.files]

\* StartupLogger.ensureLogDir
ensureLogDir(m, faults) ==
    IF m.threw \/ m.dir THEN m
    ELSE IF "mkdir" \in faults THEN [m EXCEPT !.threw = TRUE]
    ELSE [m EXCEPT !.dir = TRUE]

RECURSIVE rotateFrom(_, _, _, _)
\* the for loop of rotateIfNeeded, from index i down to 0
rotateFrom(fs, i, maxBackups, faults) ==
    IF i < 0 THEN fs
    ELSE LET after ==
                 IF ~existsSync(fs, i) THEN fs
                 ELSE IF i = maxBackups - 1
                      THEN (IF "unlink" \in faults THEN fs ELSE unlinkSync(fs, i))
                      ELSE (IF "rename" \in faults THEN fs ELSE renameSync(fs, i, i + 1))
         IN  rotateFrom(after, i - 1, maxBackups, faults)

\* faulty variant of rotateIfNeeded: the active log is never moved away
rotateNever(m, faults) == m

\* StartupLogger.rotateIfNeeded
rotateIfNeeded(m, faults) ==
    IF m.threw THEN m
    ELSE IF ~existsSync(m.files, 0) THEN m
    ELSE IF "stat" \in faults THEN m
    ELSE IF size(m.files[0]) < m.self.config.maxFileSize THEN m
    ELSE [m EXCEPT !.files = rotateFrom(m.files, m.self.config.maxBackups - 1,
                                        m.self.config.maxBackups, faults)]

\* StartupLogger.writeHeader (the process constants of the header left out)
writeHeader(m, processEnv, faults) ==
    LET header == Assign([type |-> "STARTUP_BEGIN", timestamp |-> m.self.startTime],
                         IF m.self.config.includeEnv
                         THEN [env |-> getSafeEnv(m.self.config, processEnv)]
                         ELSE noKeys)
    IN  appendFileSync(m, [kind |-> "header", header |-> header], faults)

\* new StartupLogger(config) at the instant now
StartupLogger(config, now, processEnv, faults) ==
    LET self == [ config         |-> Assign(DEFAULT_CONFIG, config),
                  startTime      |-> now,
                  currentPhase   |-> "INIT",
                  phaseStartTime |-> now,
                  phases         |-> noKeys ]
    IN  writeHeader(rotateIfNeeded(ensureLogDir(Machine(self), faults), faults),
                    processEnv, faults)

\* entry.level.toUpperCase().padEnd(5)
levelPrefix ==
    [ debug |-> <<"D", "E", "B", "U", "G">>,
      info  |-> <<"I", "N", "F", "O", " ">>,
      warn  |-> <<"W", "A", "R", "N", " ">>,
      error |-> <<"E", "R", "R", "O", "R">> ]

\* StartupLogger.writeEntry
writeEntry(m, entry, faults) ==
    LET m1 == appendFileSync(m, [kind |-> "entry", entry |-> entry], faults)
        line == levelPrefix[entry.level] \o <<" ", "[">> \o PhaseChars[entry.phase]
                    \o <<"]", " ">> \o entry.message
    IN  IF m1.threw THEN m1
        ELSE [m1 EXCEPT !.out =
                 @ \o <<[k |-> "console", method |-> "log", line |-> line]>>
                   \o (IF Has(entry, "error")
                       THEN <<[k |-> "console", method |-> "error",
                               line |-> IF entry.error.stack # emptyString
                                        THEN entry.error.stack ELSE entry.error.message]>>
                       ELSE <<>>)]

\* an optional argument is a sequence: empty when undefined, else the value
None == <<>>

Some(v) == <<v>>

\* a property that JSON.stringify leaves out when its value is undefined
Optional(key, value) == IF value = None THEN noKeys ELSE key :> value[1]

\* StartupLogger.log
log(m, level, message, metadata, now, faults) ==
    IF m.threw THEN m
    ELSE writeEntry(m, Assign([ timestamp |-> now,
                                level     |-> level,
                                phase     |-> m.self.currentPhase,
                                message   |-> message,
                                duration  |-> now - m.self.startTime ],
                              Optional("metadata", metadata)),
                    faults)

\* StartupLogger.logError
logError(m, message, error, metadata, now, faults) ==
    IF m.threw THEN m
    ELSE writeEntry(m, Assign(Assign([ timestamp |-> now,
                                       level     |-> "error",
                                       phase     |-> m.self.currentPhase,
                                       message   |-> message,
                                       duration  |-> now - m.self.startTime ],
                                     Optional("metadata", metadata)),
                              [error |-> [name    |-> error.name,
                                          message |-> error.message,
                                          stack   |-> error.stack]]),
                    faults)

\* message || fallback
OrDefault(message, fallback) ==
    IF message = None \/ message[1] = emptyString THEN fallback ELSE message[1]

\* if (this.phases.has(this.currentPhase)) this.phases.get(...).end = now
closeCurrent(self, now) ==
    IF Has(self.phases, self.currentPhase)
    THEN [self EXCEPT !.phases[self.currentPhase] = Assign(@, [end |-> now])]
    ELSE self

\* StartupLogger.startPhase
startPhase(m, phase, message, now, faults) ==
    IF m.threw THEN m
    ELSE LET closed == closeCurrent(m.self, now)
             opened == [closed EXCEPT !.currentPhase = phase,
                                      !.phaseStartTime = now,
                                      !.phases = Assign(@, phase :> [start |-> now])]
         IN  log([m EXCEPT !.self = opened], "info",
                 OrDefault(message, <<"S", "t", "a", "r", "t", "i", "n", "g", " ", "p", "h", "a", "s", "e", ":", " ">> \o PhaseChars[phase]),
                 None, now, faults)

\* StartupLogger.completePhase
completePhase(m, message, now, faults) ==
    IF m.threw THEN m
    ELSE LET phaseDuration == now - m.self.phaseStartTime
             closed == closeCurrent(m.self, now)
         IN  log([m EXCEPT !.self = closed], "info",
                 OrDefault(message, <<"P", "h", "a", "s", "e", " ">> \o PhaseChars[closed.currentPhase]
                                        \o <<" ", "c", "o", "m", "p", "l", "e", "t", "e", "d">>),
                 Some([phaseDuration |-> phaseDuration]), now, faults)

\* number | string: the two kinds of value a duration in a summary has
Duration(n) == [type |-> "number", value |-> n]

Incomplete == [type |-> "string", value |-> "incomplete"]

\* timing.end ? timing.end - timing.start : 'incomplete', for every phase
phaseDurations(self) ==
    [ p \in DOMAIN self.phases |->
        IF Has(self.phases[p], "end") /\ self.phases[p].end # 0
        THEN Duration(self.phases[p].end - self.phases[p].start)
        ELSE Incomplete ]

\* StartupLogger.complete
complete(m, message, now, faults) ==
    IF m.threw THEN m
    ELSE LET totalDuration == now - m.self.startTime
             m1 == startPhase(m, "READY", None, now, faults)
             summary == [ type          |-> "STARTUP_COMPLETE",
                          timestamp     |-> now,
                          totalDuration |-> totalDuration,
                          phases        |-> phaseDurations(m1.self) ]
             m2 == log(m1, "info",
                       OrDefault(message, <<"A", "p", "p", "l", "i", "c", "a", "t", "i", "o", "n", " ", "s", "t", "a", "r", "t", "u", "p", " ", "c", "o", "m", "p", "l", "e", "t", "e">>),
                       Some(summary), now, faults)
         IN  appendFileSync(m2, [kind |-> "separator"], faults)

\* StartupLogger.fail
fail(m, error, message, now, faults) ==
    IF m.threw THEN m
    ELSE LET m1 == startPhase(m, "ERROR", None, now, faults)
             m2 == logError(m1, OrDefault(message, <<"S", "t", "a", "r", "t", "u", "p", " ", "f", "a", "i", "l", "e", "d">>), error,
                            None, now, faults)
             summary == [ type          |-> "STARTUP_FAILED",
                          timestamp     |-> now,
                          totalDuration |-> now - m.self.startTime,
                          error         |-> [name |-> error.name, message |-> error.message] ]
         IN  appendFileSync(m2, [kind |-> "summary", summary |-> summary], faults)

\* ----- reading the log back -----
\* A line of the file as parseLog tells lines apart: whether it starts with
\* '{', and what JSON.parse makes of it (None when it throws).
\* JSON.stringify(entry) + '\n': one line, which parses back to the entry
entryLine(entry) == [startsWithBrace |-> TRUE, parsed |-> Some(entry)]

\* the first line of JSON.stringify(value, null, 2): '{' alone, not JSON
braceLine == [startsWithBrace |-> TRUE, parsed |-> None]

\* an empty line, the line of '=', an indented property line, the closing '}'
plainLine == [startsWithBrace |-> FALSE, parsed |-> None]

\* the lines that one appended chunk makes
linesOf(chunk) ==
    IF chunk.kind = "entry" THEN <<entryLine(chunk.entry)>>
    ELSE IF chunk.kind = "header"
    THEN <<plainLine, plainLine, braceLine, plainLine, plainLine>>
    ELSE IF chunk.kind = "summary"
    THEN <<plainLine, braceLine, plainLine, plainLine>>
    ELSE <<plainLine, plainLine>>

\* StartupLogger.readLog
readLog(fs) == IF ~existsSync(fs, 0) THEN <<>> ELSE fs[0]

RECURSIVE splitLines(_)
\* content.split('\n')
splitLines(content) ==
    IF content = <<>> THEN <<>>
    ELSE linesOf(Head(content)) \o splitLines(Tail(content))

\* entry.level && entry.phase && entry.message
hasAllThree(entry) ==
    /\ Has(entry, "level") /\ entry.level # ""
    /\ Has(entry, "phase") /\ entry.phase # ""
    /\ Has(entry, "message") /\ entry.message # emptyString

RECURSIVE parseLines(_)
\* the loop of parseLog
parseLines(ls) ==
    IF ls = <<>> THEN <<>>
    ELSE LET line == Head(ls)
         IN  (IF line.startsWithBrace /\ line.parsed # None /\ hasAllThree(line.parsed[1])
              THEN <<line.parsed[1]>> ELSE <<>>)
             \o parseLines(Tail(ls))

\* StartupLogger.parseLog
parseLog(fs) == parseLines(splitLines(readLog(fs)))

\* entries.slice(-n)
sliceLast(entries, n) ==
    IF Len(entries) <= n THEN entries
    ELSE SubSeq(entries, Len(entries) - n + 1, Len(entries))

\* StartupLogger.getDiagnostics
getDiagnostics(self, fs) ==
    LET entries == parseLog(fs)
        hasReady == \E i \in DOMAIN entries : entries[i].phase = "READY"
        hasFailed == \E i \in DOMAIN entries : entries[i].phase = "ERROR"
    IN  [ entries |-> sliceLast(entries, 100),
          errors  |-> SelectSeq(entries, LAMBDA e : e.level = "error"),
          phases  |-> phaseDurations(self),
          status  |-> IF hasFailed THEN "failed"
                      ELSE IF hasReady THEN "success" ELSE "in_progress" ]

\* ----- the startup logger as the application uses it -----
\* constructions alone (SpecRotate): constructor calls made
RotateRuns == 2
\* a startup run (SpecStartup): constructor calls made, and the number of
\* chunks after the header from which no further method is called
StartupRuns == 1
MaxAppended == 2

StartupConfigs ==
    { noKeys,
      [maxFileSize |-> 2],
      [maxFileSize |-> 2, maxBackups |-> 1],
      [maxFileSize |-> 2, maxBackups |-> 2, includeEnv |-> FALSE] }

\* process.env: a variable whose name holds a blacklisted pattern in lower
\* case, with two values and unset-to-empty, and a harmless variable
apiKey == <<"m", "y", "_", "a", "p", "i", "_", "k", "e", "y">>

ProcessEnvOf(secret, harmless) ==
    << [key |-> apiKey, value |-> secret], [key |-> <<"H">>, value |-> harmless] >>

ProcessEnvs ==
    { <<>>,
      ProcessEnvOf(<<"v">>, <<"h">>),
      ProcessEnvOf(<<"w">>, <<"h">>),
      ProcessEnvOf(emptyString, <<"h">>),
      ProcessEnvOf(<<"v">>, <<"g">>) }

EnvConfigs ==
    { noKeys,
      [includeEnv |-> FALSE],
      [envWhitelist |-> <<apiKey>>],
      [envBlacklist |-> << <<"N", "O", "N", "E">> >>] }

\* the file system primitives that fail during one operation
FaultSets == { {}, {"mkdir"}, {"stat"}, {"rename"}, {"unlink"}, {"append"} }

StartupTimes == { 3, 7 }

\* a run: what it is configured with, and what can fail while it logs
RunConfigs == { noKeys, [maxFileSize |-> 2] }

NoEnv == <<>>

AppendFaults == { {}, {"append"} }

PhasesIn == { "CONFIG", "DATABASE" }

StartupMessages == { emptyString, <<"u", "p">> }

OptionalMessages == { None, Some(emptyString), Some(<<"u", "p">>) }

Metadata == { None, Some([port |-> 1]) }

\* an entry left in a log file by an earlier run; g tells the files apart
OldEntry(g) ==
    [kind |-> "entry",
     entry |-> [timestamp |-> 1, level |-> "error", phase |-> "ERROR",
                message |-> <<"o", g>>, duration |-> 0]]

\* the log files an earlier run can have left behind
FilesBefore ==
    { <<>>,
      0 :> <<OldEntry("0")>>,
      0 :> <<OldEntry("0"), OldEntry("0")>>,
      (0 :> <<OldEntry("0"), OldEntry("0")>>) @@ (1 :> <<OldEntry("1")>>),
      (0 :> <<OldEntry("0"), OldEntry("0")>>) @@ (1 :> <<OldEntry("1")>>)
          @@ (2 :> <<OldEntry("2")>>),
      (0 :> <<OldEntry("0"), OldEntry("0")>>) @@ (1 :> <<OldEntry("1")>>)
          @@ (2 :> <<OldEntry("2")>>) @@ (3 :> <<OldEntry("3")>>) }

\* what an earlier run has left when the file is still small
SmallFilesBefore == { <<>>, 0 :> <<OldEntry("0")>> }

\* The process before startup.ts is used: no instance, and on disk what an
\* earlier run has left, one of before.  The Logger side is idle.
InitWith(before) ==
    /\ isProd = FALSE
    /\ stripLogs = FALSE
    /\ pinoAvailable = FALSE
    /\ loggers = <<>>
    /\ loggerRegistry = noKeys
    /\ nSetConfig = 0
    /\ call = NoCall
    /\ ret = 0
    /\ out = <<>>
    /\ threw = FALSE
    /\ dirExists \in BOOLEAN
    /\ files \in before
    /\ ~dirExists => files = <<>>
    /\ startupLoggers = <<>>
    /\ globalStartupLogger = 0
    /\ nConstructed = 0

InitStartup == InitWith(FilesBefore)

InitRun == InitWith(SmallFilesBefore)

logger == <<env, loggers, loggerRegistry, nSetConfig>>

\* the effects of a constructor call that ended in m; the instance exists for
\* the caller only if the constructor returned
Constructed(m) ==
    /\ nConstructed' = nConstructed + 1
    /\ dirExists' = m.dir
    /\ files' = m.files
    /\ out' = m.out
    /\ threw' = m.threw
    /\ IF m.threw
       THEN /\ ret' = 0
            /\ UNCHANGED <<startupLoggers, globalStartupLogger>>
       ELSE /\ ret' = Len(startupLoggers) + 1
            /\ startupLoggers' = Append(startupLoggers, m.self)
            /\ globalStartupLogger' = Len(startupLoggers) + 1

\* createStartupLogger(config)
CreateStartupLogger(config, now, processEnv, faults, maxRuns) ==
    /\ nConstructed < maxRuns
    /\ Constructed(StartupLogger(config, now, processEnv, faults))
    /\ call' = [op |-> "createStartupLogger", config |-> config, faults |-> faults,
                processEnv |-> processEnv]
    /\ UNCHANGED logger

\* faulty variant of GetStartupLogger: a new instance on every call
GetStartupLoggerAlwaysNew(config, now, processEnv, faults, maxRuns) ==
    /\ nConstructed < maxRuns
    /\ Constructed(StartupLogger(config, now, processEnv, faults))
    /\ call' = [op |-> "getStartupLogger", config |-> config, faults |-> faults,
                processEnv |-> processEnv]
    /\ UNCHANGED logger

\* getStartupLogger(config)
GetStartupLogger(config, now, processEnv, faults, maxRuns) ==
    /\ globalStartupLogger # 0 \/ nConstructed < maxRuns
    /\ IF globalStartupLogger # 0
       THEN /\ ret' = globalStartupLogger
            /\ out' = <<>>
            /\ threw' = FALSE
            /\ UNCHANGED startup
       ELSE Constructed(StartupLogger(config, now, processEnv, faults))
    /\ call' = [op |-> "getStartupLogger", config |-> config, faults |-> faults,
                processEnv |-> processEnv]
    /\ UNCHANGED logger

RECURSIVE Appended(_)
\* the chunks appended to a file after its last header
Appended(content) ==
    IF content = <<>> \/ content[Len(content)].kind = "header" THEN 0
    ELSE 1 + Appended(SubSeq(content, 1, Len(content) - 1))

\* the effects on instance self of a method call that ended in m
Called(self, m) ==
    /\ existsSync(files, 0) => Appended(files[0]) < MaxAppended
    /\ dirExists' = m.dir
    /\ files' = m.files
    /\ startupLoggers' = [startupLoggers EXCEPT ![self] = m.self]
    /\ out' = m.out
    /\ threw' = m.threw
    /\ ret' = 0
    /\ UNCHANGED <<globalStartupLogger, nConstructed, logger>>

\* Date.now() does not go backwards
Later(self, now) == now >= startupLoggers[self].phaseStartTime

\* startupLoggers[self].log(level, message, metadata)
Log(self, level, message, metadata, now, faults) ==
    /\ Later(self, now)
    /\ Called(self, log(Machine(startupLoggers[self]), level, message, metadata, now, faults))
    /\ call' = [op |-> "log", self |-> self, level |-> level, message |-> message,
                metadata |-> metadata]

\* startupLoggers[self].logError(message, error, metadata)
LogError(self, message, error, metadata, now, faults) ==
    /\ Later(self, now)
    /\ Called(self, logError(Machine(startupLoggers[self]), message, error, metadata,
                             now, faults))
    /\ call' = [op |-> "logError", self |-> self, message |-> message, error |-> error,
                metadata |-> metadata]

\* startupLoggers[self].startPhase(phase, message)
StartPhase(self, phase, message, now, faults) ==
    /\ Later(self, now)
    /\ Called(self, startPhase(Machine(startupLoggers[self]), phase, message, now, faults))
    /\ call' = [op |-> "startPhase", self |-> self, phase |-> phase, message |-> message]

\* startupLoggers[self].completePhase(message)
CompletePhase(self, message, now, faults) ==
    /\ Later(self, now)
    /\ Called(self, completePhase(Machine(startupLoggers[self]), message, now, faults))
    /\ call' = [op |-> "completePhase", self |-> self, message |-> message]

\* startupLoggers[self].complete(message)
Complete(self, message, now, faults) ==
    /\ Later(self, now)
    /\ Called(self, complete(Machine(startupLoggers[self]), message, now, faults))
    /\ call' = [op |-> "complete", self |-> self, message |-> message]

\* startupLoggers[self].fail(error, message)
Fail(self, error, message, now, faults) ==
    /\ Later(self, now)
    /\ Called(self, fail(Machine(startupLoggers[self]), error, message, now, faults))
    /\ call' = [op |-> "fail", self |-> self, error |-> error, message |-> message]

\* a method that reads: the instance and the files stay as they are
Read(result) ==
    /\ ret' = result
    /\ out' = <<>>
    /\ threw' = FALSE
    /\ UNCHANGED <<startup, logger>>

\* startupLoggers[self].parseLog()
ParseLog(self) ==
    /\ Read(parseLog(files))
    /\ call' = [op |-> "parseLog", self |-> self]

\* startupLoggers[self].getDiagnostics()
GetDiagnostics(self) ==
    /\ Read(getDiagnostics(startupLoggers[self], files))
    /\ call' = [op |-> "getDiagnostics", self |-> self]

StartupInstancesNow == 1..Len(startupLoggers)

\* what can fail, and the instant, are drawn for every call
NextRotate ==
    \/ \E c \in StartupConfigs, t \in StartupTimes, f \in FaultSets :
          CreateStartupLogger(c, t, NoEnv, f, RotateRuns)
    \/ \E c \in StartupConfigs, t \in StartupTimes, f \in FaultSets :
          GetStartupLogger(c, t, NoEnv, f, RotateRuns)

SpecRotate == InitStartup /\ [][NextRotate]_vars

NextStartup ==
    \/ \E c \in RunConfigs, f \in FaultSets :
          CreateStartupLogger(c, 3, NoEnv, f, StartupRuns)
    \/ \E self \in StartupInstancesNow, l \in LogLevel, m \in StartupMessages,
          f \in AppendFaults :
          Log(self, l, m, None, 7, f)
    \/ \E self \in StartupInstancesNow, d \in Metadata, f \in AppendFaults :
          LogError(self, <<"u", "p">>, boom, d, 7, f)
    \/ \E self \in StartupInstancesNow, p \in PhasesIn, f \in AppendFaults :
          StartPhase(self, p, None, 7, f)
    \/ \E self \in StartupInstancesNow, m \in OptionalMessages, f \in AppendFaults :
          CompletePhase(self, m, 7, f)
    \/ \E self \in StartupInstancesNow, f \in AppendFaults :
          Complete(self, None, 7, f)
    \/ \E self \in StartupInstancesNow, f \in AppendFaults :
          Fail(self, boom, None, 7, f)

SpecStartup == InitRun /\ [][NextStartup]_vars

\* ----- the header: constructions in several environments -----
EnvRuns == 2

NoFault == {}

NextEnv ==
    \E c \in EnvConfigs, e \in ProcessEnvs :
        CreateStartupLogger(c, 3, e, NoFault, EnvRuns)

SpecEnv == InitRun /\ [][NextEnv]_vars

\* ----- a run that is read back: no file system call fails -----
DiagRuns == 1

NextDiag ==
    \/ \E c \in RunConfigs : CreateStartupLogger(c, 3, NoEnv, NoFault, DiagRuns)
    \/ \E self \in StartupInstancesNow, l \in LogLevel, m \in StartupMessages :
          Log(self, l, m, None, 7, NoFault)
    \/ \E self \in StartupInstancesNow, d \in Metadata :
          LogError(self, <<"u", "p">>, boom, d, 7, NoFault)
    \/ \E self \in StartupInstancesNow, p \in PhasesIn :
          StartPhase(self, p, None, 7, NoFault)
    \/ \E self \in StartupInstancesNow : CompletePhase(self, None, 7, NoFault)
    \/ \E self \in StartupInstancesNow : Complete(self, None, 7, NoFault)
    \/ \E self \in StartupInstancesNow : Fail(self, boom, None, 7, NoFault)
    \/ \E self \in StartupInstancesNow : ParseLog(self)
    \/ \E self \in StartupInstancesNow : GetDiagnostics(self)

SpecDiag == InitRun /\ [][NextDiag]_vars

\* ======================= properties of the startup logger =======================

StartupOps ==
    {"createStartupLogger", "getStartupLogger", "log", "logError", "startPhase",
     "completePhase", "complete", "fail"}

\* C21 as stated: whatever file system call fails (mkdir, stat, rename,
\* unlink, append), constructing a StartupLogger and calling log, logError,
\* startPhase, completePhase, complete or fail never throws to the caller.
C21_StartupNeverThrows == call.op \in StartupOps => ~threw

\* a step that runs the StartupLogger constructor
IsConstruction ==
    /\ call'.op \in {"createStartupLogger", "getStartupLogger"}
    /\ nConstructed' = nConstructed + 1

\* the configuration a constructor call works with
ConfigOf(c) == Assign(DEFAULT_CONFIG, c.config)

\* C22 as stated: when rotation triggers with maxBackups = N >= 1 (and no
\* file system call fails), the former active log becomes backup .1 and every
\* backup .i with i < N becomes .(i+1): nothing but what would become backup
\* N+1 is deleted.
C22_RotationKeepsBackups ==
    [][ (/\ IsConstruction
         /\ call'.faults = {}
         /\ existsSync(files, 0)
         /\ size(files[0]) >= ConfigOf(call').maxFileSize
         /\ ConfigOf(call').maxBackups >= 1)
        => /\ existsSync(files', 1) /\ files'[1] = files[0]
           /\ \A i \in 1..(ConfigOf(call').maxBackups - 1) :
                 existsSync(files, i) => (existsSync(files', i + 1) /\ files'[i + 1] = files[i])
      ]_vars

\* a constructor call that returns makes one new instance, configured as
\* asked, and makes it the global one; one that throws leaves the instances
\* and the global one as they were
FreshInstance ==
    IF threw'
    THEN UNCHANGED <<startupLoggers, globalStartupLogger>>
    ELSE /\ Len(startupLoggers') = Len(startupLoggers) + 1
         /\ \A i \in DOMAIN startupLoggers : startupLoggers'[i] = startupLoggers[i]
         /\ ret' = Len(startupLoggers')
         /\ globalStartupLogger' = ret'
         /\ startupLoggers'[ret'].config = ConfigOf(call')

\* C31: while a global instance exists, getStartupLogger returns it whatever
\* config it is given, and constructs nothing: no file is touched and no
\* instance changes; without a global instance it constructs one, which
\* becomes the global one.  createStartupLogger constructs a new instance on
\* every call and that instance becomes the global one.
C31_GlobalLifecycle ==
    [][ /\ call'.op = "getStartupLogger" =>
              IF globalStartupLogger # 0
              THEN /\ ret' = globalStartupLogger
                   /\ ~threw'
                   /\ UNCHANGED <<files, dirExists, startupLoggers, globalStartupLogger>>
              ELSE FreshInstance
        /\ call'.op = "createStartupLogger" => FreshInstance ]_vars

\* getStartupLogger returns the second instance, which only a
\* createStartupLogger after the first can have made
C31_Witness ==
    /\ call.op = "getStartupLogger"
    /\ Len(startupLoggers) = 2
    /\ ret = 2
    /\ globalStartupLogger = 2
    /\ startupLoggers[2].config # Assign(DEFAULT_CONFIG, call.config)

\* the content of the active log, empty when the file is absent
Active(fs) == IF existsSync(fs, 0) THEN fs[0] ELSE <<>>

\* from the files before to the files after, nothing but chunks appended to
\* the active log: no file renamed, deleted or rewritten
OnlyAppended(before, after) ==
    /\ DOMAIN after \in { DOMAIN before, DOMAIN before \cup {0} }
    /\ \A i \in DOMAIN before \ {0} : after[i] = before[i]
    /\ Len(Active(after)) >= Len(Active(before))
    /\ SubSeq(Active(after), 1, Len(Active(before))) = Active(before)

\* the methods of instance self, called in the current state at instant 7
\* with a file system that works, leave the files with appended chunks only
MethodsOnlyAppend(self) ==
    LET M == Machine(startupLoggers[self]) IN
    /\ OnlyAppended(files, log(M, "info", <<"u", "p">>, None, 7, {}).files)
    /\ OnlyAppended(files, logError(M, <<"u", "p">>, boom, None, 7, {}).files)
    /\ OnlyAppended(files, startPhase(M, "CONFIG", None, 7, {}).files)
    /\ OnlyAppended(files, completePhase(M, None, 7, {}).files)
    /\ OnlyAppended(files, complete(M, None, 7, {}).files)
    /\ OnlyAppended(files, fail(M, boom, None, 7, {}).files)

\* C32: a constructor call (the file system working) on an absent active log
\* or one smaller than maxFileSize renames and deletes nothing and appends
\* the header to what the file holds; on an active log of at least
\* maxFileSize, with maxBackups >= 1, it leaves an active log that holds the
\* new header alone.  log, logError, startPhase, completePhase, complete and
\* fail only append, whatever the size of the active log.
C32_RotationTrigger ==
    /\ [](\A self \in DOMAIN startupLoggers : MethodsOnlyAppend(self))
    /\ [][ (IsConstruction /\ call'.faults = {}) =>
              IF ~existsSync(files, 0) \/ size(files[0]) < ConfigOf(call').maxFileSize
              THEN /\ OnlyAppended(files, files')
                   /\ Len(files'[0]) = Len(Active(files)) + 1
                   /\ files'[0][Len(files'[0])].kind = "header"
              ELSE ConfigOf(call').maxBackups >= 1 =>
                      /\ existsSync(files', 0)
                      /\ Len(files'[0]) = 1
                      /\ files'[0][1].kind = "header" ]_vars

\* a constructor has rotated a full active log away: the old content is in
\* backup .1, the active log holds the new header, larger than maxFileSize
C32_Witness ==
    /\ call.op = "createStartupLogger" /\ call.faults = {}
    /\ ~threw
    /\ existsSync(files, 1) /\ files[1] = <<OldEntry("0"), OldEntry("0")>>
    /\ Len(files[0]) = 1 /\ files[0][1].kind = "header"
    /\ size(files[0]) >= startupLoggers[ret].config.maxFileSize

\* fail() has been called on the instance: only fail starts the phase ERROR
\* (the application starts the phases of PhasesIn), and the phases map
\* forgets nothing
FailCalled(self) == Has(startupLoggers[self].phases, "ERROR")

\* complete() has been called on the instance: only complete starts READY
CompleteCalled(self) == Has(startupLoggers[self].phases, "READY")

\* C33 as stated: getDiagnostics().status is 'failed' iff fail() was called
\* on this instance, else 'success' iff complete() was called on it, else
\* 'in_progress', also when the log file held entries of an earlier run
\* when the instance was constructed.
C33_StatusOfThisRun ==
    call.op = "getDiagnostics" =>
        ret.status = IF FailCalled(call.self) THEN "failed"
                     ELSE IF CompleteCalled(call.self) THEN "success"
                     ELSE "in_progress"

\* the entries that writeEntry has appended to the active log, in write order
Written ==
    LET chunks == SelectSeq(readLog(files), LAMBDA c : c.kind = "entry")
    IN  [ i \in DOMAIN chunks |-> chunks[i].entry ]

\* the active log was made by the constructor: it starts with a header
FreshLog == existsSync(files, 0) /\ files[0][1].kind = "header"

\* C34 as stated: on a fresh log file parseLog() returns the entries that
\* log, logError, startPhase, completePhase, complete and fail have written,
\* in write order and with the same level, phase and message, for every
\* level and every message, the empty one included; no header or summary
\* block is returned as an entry.
C34_ParseLogRoundTrip ==
    (call.op = "parseLog" /\ FreshLog) =>
        /\ Len(ret) = Len(Written)
        /\ \A i \in DOMAIN ret :
              /\ i \in DOMAIN Written
              /\ ret[i].level = Written[i].level
              /\ ret[i].phase = Written[i].phase
              /\ ret[i].message = Written[i].message
              /\ ~Has(ret[i], "type")

\* the name holds a pattern of the blacklist, letter case aside
Blacklisted(config, key) ==
    \E j \in DOMAIN config.envBlacklist :
        includes(toLowerCase(key), toLowerCase(config.envBlacklist[j]))

\* e2 is e1 but for values of blacklisted variables; with nonEmpty, the
\* values that differ are non-empty on both sides
DiffersInSecretsOnly(config, e1, e2, nonEmpty) ==
    /\ Len(e1) = Len(e2)
    /\ \A i \in DOMAIN e1 :
          /\ e1[i].key = e2[i].key
          /\ e1[i].value # e2[i].value =>
                /\ Blacklisted(config, e1[i].key)
                /\ nonEmpty => (e1[i].value # emptyString /\ e2[i].value # emptyString)

\* the header that the last constructor call has appended
HeaderWritten == files[0][Len(files[0])].header

\* the last call has run the constructor, which has returned
Constructing ==
    /\ call.op = "createStartupLogger"
    /\ ~threw
    /\ ret = Len(startupLoggers)
    /\ files[0][Len(files[0])].kind = "header"

\* what C35 says of one header: with includeEnv=false it has no env; else a
\* blacklisted variable is in it as '[REDACTED]' if at all, whitelisted or
\* not, and the header is the one any environment in others would have given
HeaderRedacted(nonEmpty) ==
    LET config == ConfigOf(call) IN
    IF ~config.includeEnv THEN ~Has(HeaderWritten, "env")
    ELSE /\ \A k \in DOMAIN HeaderWritten.env :
               Blacklisted(config, k) => HeaderWritten.env[k] = REDACTED
         /\ \A e2 \in ProcessEnvs :
               DiffersInSecretsOnly(config, call.processEnv, e2, nonEmpty) =>
                   getSafeEnv(config, e2) = HeaderWritten.env

SummaryLogged ==
    LET entries == Written IN entries[Len(entries)].metadata

\* every recorded phase other than the current one has an end time
OnePhaseOpen ==
    \A self \in DOMAIN startupLoggers :
       \A p \in DOMAIN startupLoggers[self].phases :
          p # startupLoggers[self].currentPhase =>
              Has(startupLoggers[self].phases[p], "end")

\* the summary of complete() gives a number for every phase it lists
SummaryNumeric ==
    call.op = "complete" =>
        /\ SummaryLogged.type = "STARTUP_COMPLETE"
        /\ \A p \in DOMAIN SummaryLogged.phases : SummaryLogged.phases[p].type = "number"

\* startPhase(p) has closed the phase that was current (if recorded), made p
\* current and opened it anew
StartPhaseStep ==
    LET before == startupLoggers[call'.self]
        after == startupLoggers'[call'.self]
    IN  /\ after.currentPhase = call'.phase
        /\ Has(after.phases, call'.phase)
        /\ ~Has(after.phases[call'.phase], "end")
        /\ (Has(before.phases, before.currentPhase) /\ before.currentPhase # call'.phase)
              => Has(after.phases[before.currentPhase], "end")

\* completePhase() has closed the current phase and left it current
CompletePhaseStep ==
    LET before == startupLoggers[call'.self]
        after == startupLoggers'[call'.self]
    IN  /\ after.currentPhase = before.currentPhase
        /\ DOMAIN after.phases = DOMAIN before.phases
        /\ Has(before.phases, before.currentPhase)
              => Has(after.phases[before.currentPhase], "end")

\* C39 as stated: in every state every recorded phase other than the current
\* one has an end time; startPhase(p) closes the phase that was current (if
\* recorded), makes p current and opens it anew; completePhase() closes the
\* current phase and leaves it current; the summary that complete() writes
\* has a number as the duration of every phase it lists.
C39_PhaseTracking ==
    /\ [](OnePhaseOpen /\ SummaryNumeric)
    /\ [][(call'.op = "startPhase" => StartPhaseStep)
            /\ (call'.op = "completePhase" => CompletePhaseStep)]_vars

====
